---- MODULE Spec2Model ----
(***************************************************************************)
(* Job/event pipeline of the CRM server: the Redis-backed broker           *)
(* (server/src/config/redis.js), the generic consumer loop processQueue,   *)
(* the monitoring reads, and the campaign delivery engine                  *)
(* (server/src/consumers/campaign.consumer.js) with the campaign           *)
(* controller that creates campaigns and queues their delivery jobs.       *)
(***************************************************************************)
EXTENDS Integers, Sequences, FiniteSets, TLC

(***************************************************************************)
(* Bounds of the model.                                                    *)
(***************************************************************************)
MaxJobs == 3          \* addToQueue calls made by clients of the test queue
MaxFaults == 2        \* times the broker connection drops
MaxLiveJobs == 2      \* addToQueue calls in the liveness specification
MaxLiveFaults == 1    \* broker drops in the liveness specification
MaxMonJobs == 2       \* addToQueue calls in the monitoring specification
MaxMonFaults == 1     \* broker drops in the monitoring specification
MaxCampJobs == 1      \* addToQueue calls on campaign.jobs (campaigns and test jobs)
MaxAudience == 1      \* customers found in a campaign's segment
MaxCampFaults == 2    \* faults in the campaign specification (see `faults`)
MaxRecipients == 25   \* length of the arrays createBatches is called with
MaxWebhookCalls == 1  \* receipts posted to the webhook by other clients
MaxBatchedAudience == 11 \* customers of the campaign delivered in several batches
MaxVendorBatch == 3   \* customers of the campaign sent in one batch
MaxCustJobs == 1      \* addToQueue calls on customer.jobs
MaxBulkRecords == 201 \* records of a BULK_IMPORT_CUSTOMERS job
MaxEvents == 3        \* messages published on the channels
MaxReceiptAudience == 3 \* recipients of a campaign whose receipts are followed
MaxRaceJobs == 2      \* CREATE_CUSTOMER jobs taken by competing consumer loops

\* campaign.consumer.js:73: const batchSize = 10
BatchSize == 10

\* customer.consumer.js:264: const batchSize = 100
BulkBatchSize == 100

\* two processQueue loops compete on a queue (two consumer processes)
Loops == {1, 2}

TestQueue == "test.jobs"
CampaignQueue == "campaign.jobs"
CustomerQueue == "customer.jobs"
QueueNames == {TestQueue, CampaignQueue, CustomerQueue}
ListKeys == {TestQueue, "test.jobs:failed", CampaignQueue, "campaign.jobs:failed",
             CustomerQueue, "customer.jobs:failed"}

\* the channel the customer consumer subscribes to (customer.consumer.js:21)
\* and a channel with a subscriber of another module
CustomerEvents == "customer.events"
OtherEvents == "other.events"
Channels == {CustomerEvents, OtherEvents}

TestTypes == {"TEST_A", "TEST_B"}
HandlerErrors == {"HandlerError"}

VARIABLES
  client,       \* RedisService.client: "null" (never connected), "ready", "down"
  lists,        \* the Redis lists, by key; index 1 is the left end
  nextRef,      \* number of addToQueue calls made by producers so far
  nextId,       \* number of job ids generated so far
  faults,       \* number of faults so far: connection drops, storage and vendor errors
  pc,           \* per loop: "idle", "poll", "handler", "backoff", "stopped"
  cur,          \* per loop: the job of the current iteration
  lq,           \* per loop: the queue name processQueue was called with
  enq,          \* history: the producers' jobs in the order their lPush succeeded
  handed,       \* history: refs in the order callback(job) was invoked
  okRefs,       \* history: refs whose callback returned
  threw,        \* history: <<ref, message>> of callbacks that threw
  dlError,      \* history: refs whose dead-letter addToQueue raised
  spc,          \* getQueueStats: "idle" or "len2" (between the two lLen)
  sLength,      \* getQueueStats: the local `length`
  statsResult,  \* the last value getQueueStats returned
  healthResult, \* the outcome of the last healthCheck call
  campaigns,    \* the Campaign collection, by _id ("none": no such document)
  nextCampaign, \* number of Campaign documents created
  logs,         \* the CommunicationLog collection, in insertion order
  nextMsg,      \* number of message ids generated
  receipts,     \* vendor callbacks scheduled with setTimeout and not yet run
  h,            \* per loop: the locals of the running deliverCampaign
  sendCalls,    \* history: the sendEmail calls, with what each returned and scheduled
  bulkResult,   \* the last value sendBulkEmails returned, with the batch it was given
  forced,       \* history: the batches whose sendBulkEmails call threw
  lostUpdate,   \* history: refs whose update to 'failed' in the catch block threw
  receiptResponse, \* the last response of handleDeliveryReceipt
  mutations,    \* history, per message id: updates of its log by receipts and by force-fail
  extCalls,     \* number of receipts posted to the webhook by other clients
  customerDocs, \* the Customer collection, by _id ("none": no such document)
  custWrites,   \* history: <<ref, type>> of customer jobs that wrote to the collection
  events,       \* history: the events published on customer.events
  imp,          \* per loop: the locals of the running bulkImportCustomers
  bulkDocs,     \* number of Customer documents stored by insertMany
  verifiedRefs, \* history: refs of the bulk imports whose user verification passed
  proc,         \* the server process: "running", "stopping", "disconnected", "exited"
  sigRefs,      \* history: refs of the jobs whose handler was running at the signal
  subs,         \* per channel: the handler registered with subscribe ("none": none)
  wire,         \* per channel: messages published and not yet given to the subscriber
  nextEvent,    \* number of messages published on the channels so far
  published,    \* history, per channel: ids of the messages sent to the subscriber
  delivered,    \* history: the messages the subscriber's message callback was run for
  calls,        \* history: the invocations of handlers, in order
  escaped,      \* history: ids of messages whose message callback let an exception out
  rejected,     \* history: ids of messages whose handler returned a rejected promise
  bArray,       \* createBatches: the array it is called with
  bResult,      \* createBatches: the value it returned
  bDone         \* createBatches: whether it has returned

brokerVars == <<client, lists, nextRef, nextId, faults>>
loopVars == <<pc, cur, lq>>
histVars == <<enq, handed, okRefs, threw, dlError>>
monVars == <<spc, sLength, statsResult, healthResult>>
campVars == <<campaigns, nextCampaign, logs, nextMsg, receipts, h>>
vendorVars == <<sendCalls, bulkResult>>
delivVars == <<forced, lostUpdate>>
hookVars == <<receiptResponse, mutations, extCalls>>
custVars == <<customerDocs, custWrites, events, imp, bulkDocs, verifiedRefs>>
pureVars == <<bArray, bResult, bDone>>
sysVars == <<proc, sigRefs, subs, wire, nextEvent, published, delivered, calls, escaped,
             rejected>>
extVars == <<vendorVars, delivVars, hookVars, custVars, pureVars, sysVars>>
vars == <<brokerVars, loopVars, histVars, monVars, campVars, extVars>>

(***************************************************************************)
(* Jobs.  `ref` identifies the producer's addToQueue call (it stands for   *)
(* the caller's payload and travels with the object spread); `id` is the   *)
(* id addToQueue generates.                                                *)
(***************************************************************************)
\* job.data of a customer job: the fields the handlers of
\* customer.consumer.js destructure (0 and "none": the field is absent)
NoData ==
  [userId |-> 0, userEmail |-> "none", customerId |-> 0, email |-> "none",
   value |-> "none", records |-> 0]

NoJob ==
  [ref |-> 0, type |-> "none", id |-> 0, status |-> "none",
   error |-> "none", failedAt |-> "unset", campaignId |-> 0, customers |-> 0,
   data |-> NoData]

NewJob(r, t, c, n) ==
  [ref |-> r, type |-> t, id |-> 0, status |-> "none",
   error |-> "none", failedAt |-> "unset", campaignId |-> c, customers |-> n,
   data |-> NoData]

\* redis.js:98-103: {...job, id, timestamp, status: 'pending'}
JobData(job, id) == [job EXCEPT !.id = id, !.status = "pending"]

RPush(list, x) == Append(list, x)

\* redis.js:105: client.lPush inserts at the left end
LPush(list, x) == <<x>> \o list

\* redis.js:120: client.brPop removes from the right end
BrPopElement(list) == list[Len(list)]
BrPopRest(list) == SubSeq(list, 1, Len(list) - 1)

SameQueue(q) == q

\* redis.js:132: `${queueName}:failed`
FailedQueue(q) ==
  IF q = TestQueue THEN "test.jobs:failed"
  ELSE IF q = CustomerQueue THEN "customer.jobs:failed"
  ELSE "campaign.jobs:failed"

DeadLetterJobBare(job, msg) == job

\* redis.js:132-136: {...job, error: jobError.message, failedAt}
DeadLetterJob(job, msg) == [job EXCEPT !.error = msg, !.failedAt = "set"]

Refs(list) == {list[i].ref : i \in 1..Len(list)}
SeqSet(s) == {s[i] : i \in 1..Len(s)}
EntriesOf(list, r) == {i \in 1..Len(list) : list[i].ref = r}

(***************************************************************************)
(* Campaign documents, communication logs and the locals of a delivery.    *)
(***************************************************************************)
CampaignIds == 1..MaxCampJobs

NoStats == [sent |-> 0, failed |-> 0, total |-> 0]

NoCampaign ==
  [status |-> "none", audience_size |-> 0, started_at |-> "unset",
   completed_at |-> "unset", failure_reason |-> "none", delivery_stats |-> NoStats]

\* segment.controller.js:299-311: Campaign.create({..., audience_size, status: 'pending'})
NewCampaign(n) == [NoCampaign EXCEPT !.status = "pending", !.audience_size = n]

\* part_001:77-82: the results object of sendBulkEmails, with the batch it is for
NoBulkResult == [batch |-> <<>>, sent |-> 0, failed |-> 0, total |-> 0, details |-> <<>>]

\* part_001:77-82: results = {sent: 0, failed: 0, total: emailBatch.length, details: []}
NewBulkResult(emailBatch) == [NoBulkResult EXCEPT !.batch = emailBatch, !.total = Len(emailBatch)]

\* what the vendor does with one email: Math.random decides SENT or FAILED
\* (part_001:24), or the try block of sendEmail throws (part_001:52)
VendorOutcomes == {"SENT", "FAILED", "ERROR"}

SendEmailResultSilentError(messageId, outcome) ==
  IF outcome = "ERROR"
    THEN [messageId |-> messageId, scheduled |-> <<>>,
          success |-> FALSE, status |-> "FAILED"]
    ELSE [messageId |-> messageId,
          scheduled |-> <<[messageId |-> messageId, status |-> outcome]>>,
          success |-> TRUE, status |-> outcome]

\* part_001:16-73 sendEmail: the callbacks it schedules with setTimeout and
\* the value it returns
SendEmailResult(messageId, outcome) ==
  IF outcome = "ERROR"
    THEN [messageId |-> messageId,
          scheduled |-> <<[messageId |-> messageId, status |-> "FAILED"]>>,
          success |-> FALSE, status |-> "FAILED"]
    ELSE [messageId |-> messageId,
          scheduled |-> <<[messageId |-> messageId, status |-> outcome]>>,
          success |-> TRUE, status |-> outcome]

CountResultSentOnly(results, messageId, result) ==
  [results EXCEPT
     !.sent = IF result.success /\ result.status = "SENT" THEN @ + 1 ELSE @,
     !.details = Append(@, [messageId |-> messageId, status |-> result.status])]

\* part_001:93-104: one email's result is counted and added to the details
CountResult(results, messageId, result) ==
  [results EXCEPT
     !.sent = IF result.success /\ result.status = "SENT" THEN @ + 1 ELSE @,
     !.failed = IF result.success /\ result.status = "SENT" THEN @ ELSE @ + 1,
     !.details = Append(@, [messageId |-> messageId, status |-> result.status])]

\* campaign.consumer.js:57-150: the locals of deliverCampaign and the place it is at
NoDelivery ==
  [at |-> "begin", batchIndex |-> 0, batchLogs |-> <<>>, emailIndex |-> 0,
   sentCount |-> 0, failedCount |-> 0, results |-> NoBulkResult,
   error |-> "none"]

\* findByIdAndUpdate changes the document with that _id, if there is one
Exists(cs, c) == c \in DOMAIN cs /\ cs[c].status # "none"

SetProcessingSkipped(cs, c) == cs

\* campaign.consumer.js:62-65
SetProcessing(cs, c) ==
  IF Exists(cs, c)
    THEN [cs EXCEPT ![c].status = "processing", ![c].started_at = "set"]
    ELSE cs

\* campaign.consumer.js:125-134
SetCompleted(cs, c, sent, failed, total) ==
  IF Exists(cs, c)
    THEN [cs EXCEPT ![c].status = "completed", ![c].completed_at = "set",
                    ![c].delivery_stats = [sent |-> sent, failed |-> failed, total |-> total]]
    ELSE cs

SetFailedNoReason(cs, c, msg) ==
  IF Exists(cs, c)
    THEN [cs EXCEPT ![c].status = "failed", ![c].completed_at = "set"]
    ELSE cs

SetFailedNoDate(cs, c, msg) ==
  IF Exists(cs, c)
    THEN [cs EXCEPT ![c].status = "failed", ![c].failure_reason = msg]
    ELSE cs

\* campaign.consumer.js:142-146
SetFailed(cs, c, msg) ==
  IF Exists(cs, c)
    THEN [cs EXCEPT ![c].status = "failed", ![c].completed_at = "set",
                    ![c].failure_reason = msg]
    ELSE cs

\* the customers array of a job: customer ids 1..n
CustomersOf(job) == [i \in 1..job.customers |-> i]

Min(a, b) == IF a <= b THEN a ELSE b

SliceInclusive(array, i, j) == SubSeq(array, i + 1, Min(j + 1, Len(array)))

\* Array.prototype.slice(i, j) on a 0-based array
Slice(array, i, j) == SubSeq(array, i + 1, Min(j, Len(array)))

\* campaign.consumer.js:220-226
RECURSIVE BatchesFrom(_, _, _)
BatchesFrom(array, batchSize, i) ==
  IF i < Len(array)
    THEN <<Slice(array, i, i + batchSize)>> \o BatchesFrom(array, batchSize, i + batchSize)
    ELSE <<>>

CreateBatches(array, batchSize) == BatchesFrom(array, batchSize, 0)

NewLogsSent(batch, c, firstMsg) ==
  [i \in 1..Len(batch) |->
     [message_id |-> firstMsg + i, campaign_id |-> c, customer_id |-> batch[i],
      status |-> "sent", failure_reason |-> "none", delivered_at |-> "unset",
      vendor_webhook |-> FALSE]]

\* campaign.consumer.js:153-172: one pending log per customer of the batch
NewLogs(batch, c, firstMsg) ==
  [i \in 1..Len(batch) |->
     [message_id |-> firstMsg + i, campaign_id |-> c, customer_id |-> batch[i],
      status |-> "pending", failure_reason |-> "none", delivered_at |-> "unset",
      vendor_webhook |-> FALSE]]

ToLowerCaseIdentity(st) == st

\* String.prototype.toLowerCase on the status strings of the vendor
ToLowerCase(st) ==
  IF st = "SENT" THEN "sent"
  ELSE IF st = "FAILED" THEN "failed"
  ELSE IF st = "BOUNCED" THEN "bounced"
  ELSE st

ForceFailStatusOnly(ls, ids) ==
  [i \in 1..Len(ls) |->
     IF ls[i].message_id \in ids THEN [ls[i] EXCEPT !.status = "failed"] ELSE ls[i]]

\* campaign.consumer.js:113-120: updateMany({message_id: {$in: ids}}, {status:
\* 'failed', failure_reason: 'Batch processing error: ...', delivered_at})
ForceFail(ls, ids) ==
  [i \in 1..Len(ls) |->
     IF ls[i].message_id \in ids
       THEN [ls[i] EXCEPT !.status = "failed",
                          !.failure_reason = "Batch processing error",
                          !.delivered_at = "set"]
       ELSE ls[i]]

\* the arrays of recipients createBatches is given: runs a..b of customer ids
RecipientLists ==
  {<<>>} \cup UNION {{[i \in 1..(b - a + 1) |-> a + i - 1] : b \in a..MaxRecipients} :
                      a \in 1..MaxRecipients}

\* no request has reached handleDeliveryReceipt
NoResponse == [n |-> 0, messageId |-> 0, status |-> "none", code |-> 0]

\* a log that nothing has updated since it was inserted
NoMutations == [receipt |-> 0, force |-> 0]

\* the _ids of Customer documents: the one stored before the consumer starts
\* and one for each job, which stores at most one
CustomerIds == 1..(MaxCustJobs + 1)

\* no document has this _id
NoCustomer ==
  [email |-> "none", created_by |-> 0, created_by_email |-> "none",
   is_active |-> FALSE, stats |-> "none", name |-> "none"]

\* the User collection: one user
UserIds == {1}
UserEmail(u) == "u1"

\* a customer that user 1 created through the API
StoredCustomer ==
  [email |-> "a", created_by |-> 1, created_by_email |-> "u1",
   is_active |-> TRUE, stats |-> "s0", name |-> "n0"]

\* customer.consumer.js:250-255: the locals of bulkImportCustomers: the place
\* it is at, the loop index i, results, and the records sliced so far
NoImport ==
  [at |-> "begin", i |-> 0, imported |-> 0, failed |-> 0, errors |-> <<>>,
   processed |-> <<>>]

(***************************************************************************)
(* Initial state: the service object is constructed, nothing is connected. *)
(***************************************************************************)
InitProgram ==
  /\ client = "null"
  /\ lists = [k \in ListKeys |-> <<>>]
  /\ nextRef = 0
  /\ nextId = 0
  /\ faults = 0
  /\ pc = [l \in Loops |-> "idle"]
  /\ cur = [l \in Loops |-> NoJob]
  /\ lq = [l \in Loops |-> "none"]
  /\ enq = <<>>
  /\ handed = <<>>
  /\ okRefs = {}
  /\ threw = {}
  /\ dlError = {}
  /\ spc = "idle"
  /\ sLength = 0
  /\ statsResult = [pending |-> -1, failed |-> -1, total |-> -1]
  /\ healthResult = [status |-> "none", error |-> "none", timestamp |-> "unset", raised |-> FALSE]
  /\ campaigns = [c \in CampaignIds |-> NoCampaign]
  /\ nextCampaign = 0
  /\ logs = <<>>
  /\ nextMsg = 0
  /\ receipts = {}
  /\ h = [l \in Loops |-> NoDelivery]
  /\ sendCalls = <<>>
  /\ bulkResult = NoBulkResult
  /\ forced = <<>>
  /\ lostUpdate = {}
  /\ receiptResponse = NoResponse
  /\ mutations = <<>>
  /\ extCalls = 0
  /\ custWrites = {}
  /\ events = <<>>
  /\ imp = [l \in Loops |-> NoImport]
  /\ bulkDocs = 0
  /\ verifiedRefs = {}
  /\ proc = "running"
  /\ sigRefs = {}
  /\ subs = [ch \in Channels |-> "none"]
  /\ wire = [ch \in Channels |-> <<>>]
  /\ nextEvent = 0
  /\ published = [ch \in Channels |-> <<>>]
  /\ delivered = {}
  /\ calls = <<>>
  /\ escaped = {}
  /\ rejected = {}

\* no call of createBatches is being looked at
Init ==
  /\ InitProgram
  /\ customerDocs = [c \in CustomerIds |-> NoCustomer]
  /\ bArray = <<>>
  /\ bResult = <<>>
  /\ bDone = FALSE

\* the customer consumer starts on a database that holds one customer
InitCustomers ==
  /\ InitProgram
  /\ customerDocs = [c \in CustomerIds |-> IF c = 1 THEN StoredCustomer ELSE NoCustomer]
  /\ bArray = <<>>
  /\ bResult = <<>>
  /\ bDone = FALSE

\* a call of createBatches with an array of recipients
InitBatches ==
  /\ InitProgram
  /\ customerDocs = [c \in CustomerIds |-> NoCustomer]
  /\ bArray \in RecipientLists
  /\ bResult = <<>>
  /\ bDone = FALSE

(***************************************************************************)
(* The connection.                                                         *)
(***************************************************************************)
\* redis.js:10-44 connect
Connect ==
  /\ client = "null"
  /\ client' = "ready"
  /\ UNCHANGED <<lists, nextRef, nextId, faults, loopVars, histVars, monVars, campVars, extVars>>

\* the connection drops (redis.js:33 'error' event)
BrokerFail(maxFaults) ==
  /\ client = "ready"
  /\ faults < maxFaults
  /\ client' = "down"
  /\ faults' = faults + 1
  /\ UNCHANGED <<lists, nextRef, nextId, loopVars, histVars, monVars, campVars, extVars>>

\* redis.js:16 reconnectStrategy
BrokerRecover ==
  /\ client = "down"
  /\ client' = "ready"
  /\ UNCHANGED <<lists, nextRef, nextId, faults, loopVars, histVars, monVars, campVars, extVars>>

(***************************************************************************)
(* addToQueue, called by a producer.                                       *)
(***************************************************************************)
\* redis.js:96-111; a failed lPush is rethrown and nothing is stored
AddToQueue(q, job) ==
  /\ nextRef' = nextRef + 1
  /\ IF client = "ready"
       THEN /\ lists' = [lists EXCEPT ![q] = LPush(@, JobData(job, nextId + 1))]
            /\ nextId' = nextId + 1
            /\ enq' = Append(enq, job)
       ELSE UNCHANGED <<lists, nextId, enq>>

\* redis.js:183 addJob, with a job of the producer's making
AddJob(maxJobs) ==
  /\ nextRef < maxJobs
  /\ \E t \in TestTypes : AddToQueue(TestQueue, NewJob(nextRef + 1, t, 0, 0))
  /\ UNCHANGED <<client, faults, loopVars, handed, okRefs, threw, dlError, monVars, campVars, extVars>>

(***************************************************************************)
(* processQueue.                                                           *)
(***************************************************************************)
\* redis.js:114-115, started after connect (index.js:50-58)
StartLoop(l, q) ==
  /\ pc[l] = "idle"
  /\ client # "null"
  /\ pc' = [pc EXCEPT ![l] = "poll"]
  /\ lq' = [lq EXCEPT ![l] = q]
  /\ UNCHANGED <<brokerVars, cur, histVars, monVars, campVars, extVars>>

PollErrorToHandler(l) ==
  /\ pc[l] = "poll"
  /\ IF client # "ready"
       THEN /\ pc' = [pc EXCEPT ![l] = "handler"]
            /\ handed' = Append(handed, 0)
            /\ UNCHANGED <<lists, cur>>
       ELSE IF lists[lq[l]] = <<>>
         THEN UNCHANGED <<pc, lists, cur, handed>>
         ELSE /\ lists' = [lists EXCEPT ![lq[l]] = BrPopRest(@)]
              /\ cur' = [cur EXCEPT ![l] = BrPopElement(lists[lq[l]])]
              /\ handed' = Append(handed, BrPopElement(lists[lq[l]]).ref)
              /\ pc' = [pc EXCEPT ![l] = "handler"]
  /\ UNCHANGED <<client, nextRef, nextId, faults, lq, enq, okRefs, threw, dlError, monVars, campVars, extVars>>

\* redis.js:120-124: brPop; a broker error goes to the outer catch (139-143),
\* a timeout (null) ends the iteration, an element is parsed and handed over
Poll(l) ==
  /\ pc[l] = "poll"
  /\ IF client # "ready"
       THEN /\ pc' = [pc EXCEPT ![l] = "backoff"]
            /\ UNCHANGED <<lists, cur, handed>>
       ELSE IF lists[lq[l]] = <<>>
         THEN UNCHANGED <<pc, lists, cur, handed>>
         ELSE /\ lists' = [lists EXCEPT ![lq[l]] = BrPopRest(@)]
              /\ cur' = [cur EXCEPT ![l] = BrPopElement(lists[lq[l]])]
              /\ handed' = Append(handed, BrPopElement(lists[lq[l]]).ref)
              /\ pc' = [pc EXCEPT ![l] = "handler"]
  /\ UNCHANGED <<client, nextRef, nextId, faults, lq, enq, okRefs, threw, dlError, monVars, campVars, extVars>>

JobCompletedDeadLetters(l) ==
  /\ okRefs' = okRefs \cup {cur[l].ref}
  /\ lists' = [lists EXCEPT ![FailedQueue(lq[l])] = LPush(@, JobData(cur[l], nextId + 1))]
  /\ nextId' = nextId + 1
  /\ pc' = [pc EXCEPT ![l] = "poll"]
  /\ cur' = [cur EXCEPT ![l] = NoJob]
  /\ UNCHANGED <<threw, dlError>>

\* redis.js:127-128: callback(job) returned
JobCompleted(l) ==
  /\ okRefs' = okRefs \cup {cur[l].ref}
  /\ pc' = [pc EXCEPT ![l] = "poll"]
  /\ cur' = [cur EXCEPT ![l] = NoJob]
  /\ UNCHANGED <<lists, nextId, threw, dlError>>

\* redis.js:129-137: callback(job) threw; the copy goes to `${queueName}:failed`
\* through addToQueue, whose own failure reaches the outer catch (139-143)
JobFailed(l, msg) ==
  /\ threw' = threw \cup {<<cur[l].ref, msg>>}
  /\ cur' = [cur EXCEPT ![l] = NoJob]
  /\ UNCHANGED okRefs
  /\ IF client = "ready"
       THEN /\ lists' = [lists EXCEPT ![FailedQueue(lq[l])] =
                           LPush(@, JobData(DeadLetterJob(cur[l], msg), nextId + 1))]
            /\ nextId' = nextId + 1
            /\ pc' = [pc EXCEPT ![l] = "poll"]
            /\ UNCHANGED dlError
       ELSE /\ dlError' = dlError \cup {cur[l].ref}
            /\ pc' = [pc EXCEPT ![l] = "backoff"]
            /\ UNCHANGED <<lists, nextId>>

\* the callback of the test queue returns
HandlerReturn(l) ==
  /\ pc[l] = "handler"
  /\ lq[l] = TestQueue
  /\ JobCompleted(l)
  /\ UNCHANGED <<client, nextRef, faults, lq, enq, handed, monVars, campVars, extVars>>

\* the callback of the test queue throws
HandlerThrow(l) ==
  /\ pc[l] = "handler"
  /\ lq[l] = TestQueue
  /\ \E msg \in HandlerErrors : JobFailed(l, msg)
  /\ UNCHANGED <<client, nextRef, faults, lq, enq, handed, monVars, campVars, extVars>>

BackoffExit(l) ==
  /\ pc[l] = "backoff"
  /\ pc' = [pc EXCEPT ![l] = "stopped"]
  /\ UNCHANGED <<brokerVars, cur, lq, histVars, monVars, campVars, extVars>>

\* redis.js:139-143: the 5 s wait is over, the while loop iterates
Backoff(l) ==
  /\ pc[l] = "backoff"
  /\ pc' = [pc EXCEPT ![l] = "poll"]
  /\ UNCHANGED <<brokerVars, cur, lq, histVars, monVars, campVars, extVars>>

\* the process of loop l dies inside callback(job): the job was removed from
\* the list by brPop (redis.js:120) and lived only in the variables of that
\* iteration (122-125)
ConsumerCrash(l) ==
  /\ pc[l] = "handler"
  /\ pc' = [pc EXCEPT ![l] = "crashed"]
  /\ cur' = [cur EXCEPT ![l] = NoJob]
  /\ UNCHANGED <<brokerVars, lq, histVars, monVars, campVars, extVars>>

(***************************************************************************)
(* Storage: an operation on the database succeeds or throws.               *)
(***************************************************************************)
DbStep(ok) ==
  /\ ok \/ faults < MaxCampFaults
  /\ faults' = IF ok THEN faults ELSE faults + 1

(***************************************************************************)
(* createCampaign and the test route.                                      *)
(***************************************************************************)
\* segment.controller.js:298-357: Campaign.create, then addJob; an error of
\* either is answered with status 500 and nothing is undone
CreateCampaignFor(maxJobs, audiences) ==
  /\ nextRef < maxJobs
  /\ \E n \in audiences, ok \in BOOLEAN :
       /\ DbStep(ok)
       /\ IF ok
            THEN /\ nextCampaign' = nextCampaign + 1
                 /\ campaigns' = [campaigns EXCEPT ![nextCampaign + 1] = NewCampaign(n)]
                 /\ AddToQueue(CampaignQueue,
                               NewJob(nextRef + 1, "DELIVER_CAMPAIGN", nextCampaign + 1, n))
            ELSE UNCHANGED <<nextCampaign, campaigns, lists, nextRef, nextId, enq>>
  /\ UNCHANGED <<client, loopVars, handed, okRefs, threw, dlError, monVars,
                 logs, nextMsg, receipts, h, extVars>>

\* createCampaign for a segment of up to MaxAudience customers
CreateCampaign == CreateCampaignFor(MaxCampJobs, 1..MaxAudience)

\* VENDOR_API_DOCUMENTATION.md:592-608 submitTestJob: the job carries type and
\* data only, so it has no campaignId and no customers of its own
SubmitTestJob ==
  /\ nextRef < MaxCampJobs
  /\ \E t \in {"DELIVER_CAMPAIGN", "TEST_A"} :
       AddToQueue(CampaignQueue, NewJob(nextRef + 1, t, 0, 0))
  /\ UNCHANGED <<client, faults, loopVars, handed, okRefs, threw, dlError, monVars,
                 campaigns, nextCampaign, logs, nextMsg, receipts, h, extVars>>

(***************************************************************************)
(* processCampaignJob and deliverCampaign, run as the callback of a        *)
(* processQueue loop on campaign.jobs.                                     *)
(***************************************************************************)
InCampaignHandler(l, at) ==
  /\ pc[l] = "handler"
  /\ lq[l] = CampaignQueue
  /\ cur[l].type = "DELIVER_CAMPAIGN"
  /\ h[l].at = at

Caught(l, msg) == [h EXCEPT ![l].at = "catch", ![l].error = msg]

Batches(l) == CreateBatches(CustomersOf(cur[l]), BatchSize)

AfterBatchDropsFailed(l, sent, failed) ==
  [h EXCEPT ![l].at = IF h[l].batchIndex + 1 < Len(Batches(l)) THEN "logs" ELSE "final",
            ![l].batchIndex = @ + 1,
            ![l].sentCount = @ + sent,
            ![l].batchLogs = <<>>, ![l].emailIndex = 0,
            ![l].results = NoBulkResult]

AfterBatchSkipsRest(l, sent, failed) ==
  [h EXCEPT ![l].at = "final",
            ![l].batchIndex = @ + 1,
            ![l].sentCount = @ + sent,
            ![l].failedCount = @ + failed,
            ![l].batchLogs = <<>>, ![l].emailIndex = 0,
            ![l].results = NoBulkResult]

\* the place after batch number batchIndex: the next batch or the final update
AfterBatch(l, sent, failed) ==
  [h EXCEPT ![l].at = IF h[l].batchIndex + 1 < Len(Batches(l)) THEN "logs" ELSE "final",
            ![l].batchIndex = @ + 1,
            ![l].sentCount = @ + sent,
            ![l].failedCount = @ + failed,
            ![l].batchLogs = <<>>, ![l].emailIndex = 0,
            ![l].results = NoBulkResult]

\* campaign.consumer.js:44-50: a type without a case is logged, the callback returns
ProcessUnknownJob(l) ==
  /\ pc[l] = "handler"
  /\ lq[l] = CampaignQueue
  /\ cur[l].type # "DELIVER_CAMPAIGN"
  /\ JobCompleted(l)
  /\ UNCHANGED <<client, nextRef, faults, lq, enq, handed, monVars, campVars, extVars>>

\* campaign.consumer.js:58-74: the update to 'processing', then customers.length
\* (a TypeError when the job has no customers array)
DeliverStart(l) ==
  /\ InCampaignHandler(l, "begin")
  /\ \E ok \in BOOLEAN :
       /\ DbStep(ok)
       /\ IF ~ok
            THEN /\ h' = Caught(l, "StorageError")
                 /\ UNCHANGED campaigns
            ELSE /\ campaigns' = SetProcessing(campaigns, cur[l].campaignId)
                 /\ h' = IF cur[l].customers = 0
                           THEN Caught(l, "TypeError")
                           ELSE [h EXCEPT ![l].at = "logs"]
  /\ UNCHANGED <<client, lists, nextRef, nextId, loopVars, histVars, monVars,
                 nextCampaign, logs, nextMsg, receipts, extVars>>

\* campaign.consumer.js:76-93: createCommunicationLogs for the batch (insertMany)
DeliverLogs(l) ==
  /\ InCampaignHandler(l, "logs")
  /\ \E ok \in BOOLEAN :
       /\ DbStep(ok)
       /\ IF ~ok
            THEN /\ h' = Caught(l, "StorageError")
                 /\ UNCHANGED <<logs, nextMsg, mutations>>
            ELSE LET batch == Batches(l)[h[l].batchIndex + 1]
                     new == NewLogs(batch, cur[l].campaignId, nextMsg)
                 IN /\ logs' = logs \o new
                    /\ mutations' = mutations \o [i \in 1..Len(new) |-> NoMutations]
                    /\ nextMsg' = nextMsg + Len(batch)
                    /\ h' = [h EXCEPT ![l].at = "send",
                                      ![l].batchLogs = [i \in 1..Len(new) |-> new[i].message_id],
                                      ![l].emailIndex = 0,
                                      ![l].results = NewBulkResult(
                                         [i \in 1..Len(new) |-> new[i].message_id])]
  /\ UNCHANGED <<client, lists, nextRef, nextId, loopVars, histVars, monVars,
                 campaigns, nextCampaign, receipts, vendorVars, delivVars,
                 receiptResponse, extCalls, custVars, pureVars, sysVars>>

\* part_001:16-50 sendEmail inside the loop of sendBulkEmails (part_001:87-120):
\* the vendor decides SENT or FAILED, schedules the receipt callback and the
\* result is counted; after the last email the batch result is added to the
\* totals (campaign.consumer.js:97-106)
SendEmailWith(l, outcomes) ==
  /\ InCampaignHandler(l, "send")
  /\ h[l].emailIndex < Len(h[l].batchLogs)
  /\ \E outcome \in outcomes :
       LET messageId == h[l].batchLogs[h[l].emailIndex + 1]
           result == SendEmailResult(messageId, outcome)
           results == CountResult(h[l].results, messageId, result)
       IN /\ outcome = "ERROR" => faults < MaxCampFaults
          /\ faults' = IF outcome = "ERROR" THEN faults + 1 ELSE faults
          /\ receipts' = receipts \cup SeqSet(result.scheduled)
          /\ sendCalls' = Append(sendCalls, result)
          /\ IF h[l].emailIndex + 1 < Len(h[l].batchLogs)
               THEN /\ h' = [h EXCEPT ![l].emailIndex = @ + 1, ![l].results = results]
                    /\ UNCHANGED bulkResult
               ELSE /\ h' = AfterBatch(l, results.sent, results.failed)
                    /\ bulkResult' = results
  /\ UNCHANGED <<client, lists, nextRef, nextId, loopVars, histVars, monVars,
                 campaigns, nextCampaign, logs, nextMsg, delivVars, hookVars, custVars, pureVars, sysVars>>

SendEmail(l) == SendEmailWith(l, VendorOutcomes)

\* campaign.consumer.js:108-121: sendBulkEmails threw; the batch is counted as
\* failed and its logs are marked failed with updateMany
BatchError(l) ==
  /\ InCampaignHandler(l, "send")
  /\ faults < MaxCampFaults
  /\ \E ok \in BOOLEAN :
       /\ ok \/ faults + 1 < MaxCampFaults
       /\ faults' = IF ok THEN faults + 1 ELSE faults + 2
       /\ forced' = Append(forced, [ids |-> SeqSet(h[l].batchLogs), updated |-> ok])
       /\ IF ~ok
            THEN /\ h' = [Caught(l, "StorageError") EXCEPT
                            ![l].failedCount = @ + Len(h[l].batchLogs)]
                 /\ UNCHANGED <<logs, mutations>>
            ELSE /\ logs' = ForceFail(logs, SeqSet(h[l].batchLogs))
                 /\ mutations' = [i \in 1..Len(mutations) |->
                                    IF i \in SeqSet(h[l].batchLogs)
                                      THEN [mutations[i] EXCEPT !.force = @ + 1]
                                      ELSE mutations[i]]
                 /\ h' = AfterBatch(l, 0, Len(h[l].batchLogs))
  /\ UNCHANGED <<client, lists, nextRef, nextId, loopVars, histVars, monVars,
                 campaigns, nextCampaign, nextMsg, receipts, vendorVars, lostUpdate,
                 receiptResponse, extCalls, custVars, pureVars, sysVars>>

\* campaign.consumer.js:124-136: the final update; then the callback returns
DeliverFinish(l) ==
  /\ InCampaignHandler(l, "final")
  /\ \E ok \in BOOLEAN :
       /\ DbStep(ok)
       /\ IF ~ok
            THEN /\ h' = Caught(l, "StorageError")
                 /\ UNCHANGED <<campaigns, pc, cur, lists, nextId, okRefs, threw, dlError>>
            ELSE /\ campaigns' = SetCompleted(campaigns, cur[l].campaignId, h[l].sentCount,
                                              h[l].failedCount, cur[l].customers)
                 /\ h' = [h EXCEPT ![l] = NoDelivery]
                 /\ JobCompleted(l)
  /\ UNCHANGED <<client, nextRef, lq, enq, handed, monVars,
                 nextCampaign, logs, nextMsg, receipts, extVars>>

\* campaign.consumer.js:138-149 and 51-54: the update to 'failed', then the
\* error is thrown again; when the update itself throws, its error is thrown
DeliverCatch(l) ==
  /\ InCampaignHandler(l, "catch")
  /\ \E ok \in BOOLEAN :
       /\ DbStep(ok)
       /\ IF ok
            THEN /\ campaigns' = SetFailed(campaigns, cur[l].campaignId, h[l].error)
                 /\ JobFailed(l, h[l].error)
                 /\ UNCHANGED lostUpdate
            ELSE /\ UNCHANGED campaigns
                 /\ JobFailed(l, "StorageError")
                 /\ lostUpdate' = lostUpdate \cup {cur[l].ref}
  /\ h' = [h EXCEPT ![l] = NoDelivery]
  /\ UNCHANGED <<client, nextRef, lq, enq, handed, monVars,
                 nextCampaign, logs, nextMsg, receipts, vendorVars, forced, hookVars,
                 custVars, pureVars, sysVars>>

(***************************************************************************)
(* The delivery receipt webhook.                                           *)
(***************************************************************************)
HasLog(ls, messageId) == \E i \in 1..Len(ls) : ls[i].message_id = messageId

\* part_001:305-320 and 340-361: the status code of the response
ReceiptCode(ls, r, ok) ==
  IF r.messageId = 0 \/ r.status = "none" THEN 400
  ELSE IF ~ok THEN 500
  ELSE IF ~HasLog(ls, r.messageId) THEN 404
  ELSE 200

UpdateAlsoUnmatched(ls, r) ==
  IF HasLog(ls, r.messageId)
    THEN [i \in 1..Len(ls) |->
            IF ls[i].message_id = r.messageId
              THEN [ls[i] EXCEPT !.status = ToLowerCase(r.status), !.vendor_webhook = TRUE]
              ELSE ls[i]]
    ELSE [i \in 1..Len(ls) |-> [ls[i] EXCEPT !.vendor_webhook = TRUE]]

\* part_001:323-338: findOneAndUpdate({message_id: messageId}, updateData)
\* changes the log with that message_id, if there is one
UpdateByMessageId(ls, r) ==
  [i \in 1..Len(ls) |->
     IF ls[i].message_id = r.messageId
       THEN [ls[i] EXCEPT
               !.status = ToLowerCase(r.status),
               !.delivered_at = IF r.status = "SENT" THEN "set" ELSE "unset",
               !.failure_reason = IF r.status = "SENT" THEN "none" ELSE "vendor",
               !.vendor_webhook = TRUE]
       ELSE ls[i]]

\* part_001:302-363 handleDeliveryReceipt with the request body r; the
\* update is reached only by a request that passes the two checks
HandleDeliveryReceipt(r, ok) ==
  /\ ~ok => r.messageId # 0 /\ r.status # "none"
  /\ DbStep(ok)
  /\ LET code == ReceiptCode(logs, r, ok)
     IN /\ receiptResponse' = [n |-> receiptResponse.n + 1, messageId |-> r.messageId,
                               status |-> r.status, code |-> code]
        /\ logs' = IF code \in {200, 404} THEN UpdateByMessageId(logs, r) ELSE logs
        /\ mutations' = IF code = 200
                          THEN [mutations EXCEPT ![r.messageId].receipt = @ + 1]
                          ELSE mutations

\* part_001:127-161 and 302-363: a scheduled callback posts the receipt and
\* handleDeliveryReceipt updates the log with that message_id, if there is one
DeliveryReceipt ==
  /\ \E r \in receipts, ok \in BOOLEAN :
       /\ receipts' = receipts \ {r}
       /\ HandleDeliveryReceipt(r, ok)
  /\ UNCHANGED <<client, lists, nextRef, nextId, loopVars, histVars, monVars,
                 campaigns, nextCampaign, nextMsg, h, vendorVars, delivVars, extCalls,
                 custVars, pureVars, sysVars>>

\* part_001:127-161 callDeliveryReceiptAPI: the fetch of a scheduled callback
\* throws or is answered without reaching the handler; the catch only logs,
\* and nothing posts the receipt again
ReceiptLost ==
  /\ faults < MaxCampFaults
  /\ faults' = faults + 1
  /\ \E r \in receipts : receipts' = receipts \ {r}
  /\ UNCHANGED <<client, lists, nextRef, nextId, loopVars, histVars, monVars,
                 campaigns, nextCampaign, logs, nextMsg, h, vendorVars, delivVars, hookVars,
                 custVars, pureVars, sysVars>>

\* VENDOR_API_DOCUMENTATION.md:474-480: another client posts a receipt to
\* /api/vendor/delivery-receipt, for a message id of a log, for one that no
\* log has (-1), or without one (0), with a status of the vendor, with
\* another string, or without a status
ExternalReceipt ==
  /\ extCalls < MaxWebhookCalls
  /\ extCalls' = extCalls + 1
  /\ \E messageId \in (-1)..nextMsg, status \in {"SENT", "FAILED", "BOUNCED", "none"},
        ok \in BOOLEAN :
       HandleDeliveryReceipt([messageId |-> messageId, status |-> status], ok)
  /\ UNCHANGED <<client, lists, nextRef, nextId, loopVars, histVars, monVars,
                 campaigns, nextCampaign, nextMsg, receipts, h, vendorVars, delivVars,
                 custVars, pureVars, sysVars>>

(***************************************************************************)
(* The customer consumer: processCustomerJob and its handlers, run as the  *)
(* callback of a processQueue loop on customer.jobs.                       *)
(***************************************************************************)
\* customer.consumer.js:62-77: the cases of the switch
CustomerJobTypes ==
  {"CREATE_CUSTOMER", "UPDATE_CUSTOMER", "DELETE_CUSTOMER",
   "BULK_IMPORT_CUSTOMERS", "UPDATE_CUSTOMER_STATS"}

\* the payloads of the jobs of type t: a user id that names the user or
\* nobody, the user's email or another one, a customer id that names the stored
\* customer or none, and the empty payload
CustomerJobData(t) ==
  {NoData} \cup
  (CASE t = "CREATE_CUSTOMER" ->
          {[NoData EXCEPT !.userId = u, !.userEmail = m, !.email = e] :
             u \in {1, 2}, m \in {"u1", "other"}, e \in {"a", "b"}}
     [] t \in {"UPDATE_CUSTOMER", "DELETE_CUSTOMER"} ->
          {[NoData EXCEPT !.userId = u, !.userEmail = m, !.customerId = c, !.value = "n1"] :
             u \in {1, 2}, m \in {"u1", "other"}, c \in {1, 2}}
     [] t = "BULK_IMPORT_CUSTOMERS" ->
          {[NoData EXCEPT !.userId = u, !.userEmail = m, !.records = 1] :
             u \in {1, 2}, m \in {"u1", "other"}}
     [] t = "UPDATE_CUSTOMER_STATS" ->
          {[NoData EXCEPT !.userId = u, !.userEmail = IF u = 1 THEN "u1" ELSE "none",
                          !.customerId = c, !.value = "s1"] :
             u \in {0, 1}, c \in {1, 2}}
     [] OTHER -> {})

\* VENDOR_API_DOCUMENTATION.md:592-608 submitTestJob with queueName
\* 'customer.jobs': the caller chooses the type and the data of the job
SubmitCustomerJob ==
  /\ nextRef < MaxCustJobs
  /\ \E t \in CustomerJobTypes \cup {"TEST_A"} :
       \E d \in CustomerJobData(t) :
         AddToQueue(CustomerQueue, [NewJob(nextRef + 1, t, 0, 0) EXCEPT !.data = d])
  /\ UNCHANGED <<client, faults, loopVars, handed, okRefs, threw, dlError, monVars,
                 campVars, extVars>>

\* customer.consumer.js:93-96: User.findById(userId) found a user and
\* user.email === userEmail
Verified(d) == d.userId \in UserIds /\ UserEmail(d.userId) = d.userEmail

\* an event: its type and the fields of its data; `ref` names the job whose
\* handler published it
NoEvent ==
  [type |-> "none", error |-> "none", customerId |-> 0, userId |-> 0,
   imported |-> 0, failed |-> 0, errors |-> 0, ref |-> 0]

\* what a handler did up to its return or its throw: the collection, whether
\* it wrote to it, the event it published on success, the error it threw
\* ("none": it returned) and whether the fault chosen for the run happened
Thrown(docs, msg, faulted) ==
  [docs |-> docs, wrote |-> FALSE, event |-> NoEvent, error |-> msg, faulted |-> faulted]

WroteThenThrown(docs, msg) ==
  [docs |-> docs, wrote |-> TRUE, event |-> NoEvent, error |-> msg, faulted |-> TRUE]

Returned(docs, wrote, event, faulted) ==
  [docs |-> docs, wrote |-> wrote, event |-> event, error |-> "none", faulted |-> faulted]

HasCustomer(docs, c) == c \in DOMAIN docs /\ docs[c] # NoCustomer

\* the _id the next stored document gets
FreeId(docs) ==
  CHOOSE i \in DOMAIN docs :
    /\ docs[i] = NoCustomer
    /\ \A j \in DOMAIN docs : j < i => docs[j] # NoCustomer

\* customer.consumer.js:109-113: {...customerData, created_by, created_by_email}
NewCustomer(d) ==
  [StoredCustomer EXCEPT !.email = d.email, !.created_by = d.userId,
                         !.created_by_email = d.userEmail]

ExistingCustomerNone(docs, d) == FALSE

\* customer.consumer.js:99-102: Customer.findOne({email, created_by: userId})
ExistingCustomer(docs, d) ==
  \E c \in DOMAIN docs :
    HasCustomer(docs, c) /\ docs[c].email = d.email /\ docs[c].created_by = d.userId

\* customer.consumer.js:158-163 and 210-215: the filter {_id: customerId,
\* created_by: userId, created_by_email: userEmail}
OwnedCustomer(docs, d) ==
  /\ HasCustomer(docs, d.customerId)
  /\ docs[d.customerId].created_by = d.userId
  /\ docs[d.customerId].created_by_email = d.userEmail

\* customer.consumer.js:90-128 createCustomer, up to the catch block; fp is
\* the operation that fails in this run
CreateCustomerRun(docs, d, fp) ==
  IF fp = "findUser" THEN Thrown(docs, "StorageError", TRUE)
  ELSE IF ~Verified(d) THEN Thrown(docs, "User verification failed", FALSE)
  ELSE IF fp = "findOne" THEN Thrown(docs, "StorageError", TRUE)
  ELSE IF ExistingCustomer(docs, d)
    THEN Thrown(docs, "Customer with this email already exists", FALSE)
  ELSE IF fp = "save" THEN Thrown(docs, "StorageError", TRUE)
  ELSE LET id == FreeId(docs)
           stored == [docs EXCEPT ![id] = NewCustomer(d)]
       IN IF fp = "publish"
            THEN WroteThenThrown(stored, "PublishError")
            ELSE Returned(stored, TRUE,
                          [NoEvent EXCEPT !.type = "customer.created", !.customerId = id,
                                          !.userId = d.userId], FALSE)

\* customer.consumer.js:145-186 updateCustomer, up to the catch block
UpdateCustomerRun(docs, d, fp) ==
  IF fp = "findUser" THEN Thrown(docs, "StorageError", TRUE)
  ELSE IF ~Verified(d) THEN Thrown(docs, "User verification failed", FALSE)
  ELSE IF fp = "update" THEN Thrown(docs, "StorageError", TRUE)
  ELSE IF ~OwnedCustomer(docs, d)
    THEN Thrown(docs, "Customer not found or access denied", FALSE)
  ELSE LET updated == [docs EXCEPT ![d.customerId].name = d.value]
       IN IF fp = "publish"
            THEN WroteThenThrown(updated, "PublishError")
            ELSE Returned(updated, TRUE,
                          [NoEvent EXCEPT !.type = "customer.updated",
                                          !.customerId = d.customerId,
                                          !.userId = d.userId], FALSE)

\* customer.consumer.js:202-234 deleteCustomer, up to the catch block: the
\* document stays, with is_active false
DeleteCustomerRun(docs, d, fp) ==
  IF fp = "findUser" THEN Thrown(docs, "StorageError", TRUE)
  ELSE IF ~Verified(d) THEN Thrown(docs, "User verification failed", FALSE)
  ELSE IF fp = "update" THEN Thrown(docs, "StorageError", TRUE)
  ELSE IF ~OwnedCustomer(docs, d)
    THEN Thrown(docs, "Customer not found or access denied", FALSE)
  ELSE LET updated == [docs EXCEPT ![d.customerId].is_active = FALSE]
       IN IF fp = "publish"
            THEN WroteThenThrown(updated, "PublishError")
            ELSE Returned(updated, TRUE,
                          [NoEvent EXCEPT !.type = "customer.deleted",
                                          !.customerId = d.customerId,
                                          !.userId = d.userId], FALSE)

\* customer.consumer.js:316-329 updateCustomerStats, up to the catch block:
\* findByIdAndUpdate(customerId, {$set: {stats}})
UpdateCustomerStatsRun(docs, d, fp) ==
  IF fp = "update" THEN Thrown(docs, "StorageError", TRUE)
  ELSE IF ~HasCustomer(docs, d.customerId) THEN Thrown(docs, "Customer not found", FALSE)
  ELSE Returned([docs EXCEPT ![d.customerId].stats = d.value], TRUE, NoEvent, FALSE)

InCustomerHandler(l, t) ==
  /\ pc[l] = "handler"
  /\ lq[l] = CustomerQueue
  /\ cur[l].type = t

\* the end of a handler of processCustomerJob whose try block did `out`: it
\* returns, or its catch block publishes the event failedType (if it has one)
\* and rethrows; cp: that publish fails, and its error is the one thrown
\* (customer.consumer.js:81-84 rethrows to processQueue)
FinishCustomerJob(l, out, fp, failedType, cp) ==
  /\ fp # "none" => out.faulted
  /\ cp => out.error # "none" /\ failedType # "none"
  /\ LET cost == (IF fp # "none" THEN 1 ELSE 0) + (IF cp THEN 1 ELSE 0)
     IN /\ faults + cost <= MaxCampFaults
        /\ faults' = faults + cost
  /\ customerDocs' = out.docs
  /\ custWrites' = IF out.wrote THEN custWrites \cup {<<cur[l].ref, cur[l].type>>}
                                ELSE custWrites
  /\ IF out.error = "none"
       THEN /\ events' = IF out.event = NoEvent
                           THEN events
                           ELSE Append(events, [out.event EXCEPT !.ref = cur[l].ref])
            /\ JobCompleted(l)
       ELSE IF failedType = "none"
         THEN /\ UNCHANGED events
              /\ JobFailed(l, out.error)
       ELSE IF cp
         THEN /\ UNCHANGED events
              /\ JobFailed(l, "PublishError")
         ELSE /\ events' = Append(events,
                             [NoEvent EXCEPT !.type = failedType, !.error = out.error,
                                             !.customerId = cur[l].data.customerId,
                                             !.userId = cur[l].data.userId,
                                             !.ref = cur[l].ref])
              /\ JobFailed(l, out.error)
  /\ imp' = [imp EXCEPT ![l] = NoImport]
  /\ UNCHANGED <<client, nextRef, lq, enq, handed, monVars, campVars,
                 vendorVars, delivVars, hookVars, pureVars, sysVars, bulkDocs, verifiedRefs>>

\* customer.consumer.js:88-140
CreateCustomer(l) ==
  /\ InCustomerHandler(l, "CREATE_CUSTOMER")
  /\ \E fp \in {"none", "findUser", "findOne", "save", "publish"}, cp \in BOOLEAN :
       FinishCustomerJob(l, CreateCustomerRun(customerDocs, cur[l].data, fp), fp,
                         "customer.creation.failed", cp)

\* customer.consumer.js:90-106, createCustomer up to the duplicate check, as a
\* step of its own: other loops run between this await and the save
CreateCustomerCheck(l) ==
  /\ InCustomerHandler(l, "CREATE_CUSTOMER")
  /\ imp[l].at = "begin"
  /\ \E fp \in {"none", "findUser", "findOne"}, cp \in BOOLEAN :
       LET out == CreateCustomerRun(customerDocs, cur[l].data, fp)
       IN IF out.error # "none"
            THEN FinishCustomerJob(l, out, fp, "customer.creation.failed", cp)
            ELSE /\ fp = "none"
                 /\ ~cp
                 /\ imp' = [imp EXCEPT ![l].at = "save"]
                 /\ UNCHANGED <<brokerVars, loopVars, histVars, monVars, campVars, vendorVars,
                                delivVars, hookVars, customerDocs, custWrites, events,
                                bulkDocs, verifiedRefs, pureVars, sysVars>>

\* customer.consumer.js:108-125, from new Customer(...) on.  The schema of
\* Customer is not in the sources: when a customer with the same email and
\* user was stored since the check, save() stores a second one (no unique
\* index) or throws the duplicate key error (dupKey)
CreateCustomerSaveRun(docs, d, fp, dupKey) ==
  IF fp = "save" THEN Thrown(docs, "StorageError", TRUE)
  ELSE IF dupKey THEN Thrown(docs, "E11000 duplicate key error", FALSE)
  ELSE LET id == FreeId(docs)
           stored == [docs EXCEPT ![id] = NewCustomer(d)]
       IN IF fp = "publish"
            THEN WroteThenThrown(stored, "PublishError")
            ELSE Returned(stored, TRUE,
                          [NoEvent EXCEPT !.type = "customer.created", !.customerId = id,
                                          !.userId = d.userId], FALSE)

CreateCustomerSave(l) ==
  /\ InCustomerHandler(l, "CREATE_CUSTOMER")
  /\ imp[l].at = "save"
  /\ \E fp \in {"none", "save", "publish"}, cp \in BOOLEAN, dupKey \in BOOLEAN :
       /\ dupKey => ExistingCustomer(customerDocs, cur[l].data)
       /\ FinishCustomerJob(l, CreateCustomerSaveRun(customerDocs, cur[l].data, fp, dupKey),
                            fp, "customer.creation.failed", cp)

\* two producers ask for the same or for different customers of user 1
SubmitCreateJob ==
  /\ nextRef < MaxRaceJobs
  /\ \E e \in {"a", "b"} :
       AddToQueue(CustomerQueue,
                  [NewJob(nextRef + 1, "CREATE_CUSTOMER", 0, 0) EXCEPT
                     !.data = [NoData EXCEPT !.userId = 1, !.userEmail = UserEmail(1),
                                             !.email = e]])
  /\ UNCHANGED <<client, faults, loopVars, handed, okRefs, threw, dlError, monVars,
                 campVars, extVars>>

\* customer.consumer.js:143-197
UpdateCustomer(l) ==
  /\ InCustomerHandler(l, "UPDATE_CUSTOMER")
  /\ \E fp \in {"none", "findUser", "update", "publish"}, cp \in BOOLEAN :
       FinishCustomerJob(l, UpdateCustomerRun(customerDocs, cur[l].data, fp), fp,
                         "customer.update.failed", cp)

\* customer.consumer.js:200-245
DeleteCustomer(l) ==
  /\ InCustomerHandler(l, "DELETE_CUSTOMER")
  /\ \E fp \in {"none", "findUser", "update", "publish"}, cp \in BOOLEAN :
       FinishCustomerJob(l, DeleteCustomerRun(customerDocs, cur[l].data, fp), fp,
                         "customer.deletion.failed", cp)

\* customer.consumer.js:250-261: the user is verified; a failure goes to the
\* outer catch block (301-310)
BulkImportStart(l) ==
  /\ InCustomerHandler(l, "BULK_IMPORT_CUSTOMERS")
  /\ imp[l].at = "begin"
  /\ \E fp \in {"none", "findUser"}, cp \in BOOLEAN :
       IF fp = "findUser" \/ ~Verified(cur[l].data)
         THEN FinishCustomerJob(l,
                IF fp = "findUser"
                  THEN Thrown(customerDocs, "StorageError", TRUE)
                  ELSE Thrown(customerDocs, "User verification failed", FALSE),
                fp, "customer.bulk.import.failed", cp)
         ELSE /\ ~cp
              /\ imp' = [imp EXCEPT ![l].at = "batch"]
              /\ verifiedRefs' = verifiedRefs \cup {cur[l].ref}
              /\ UNCHANGED <<brokerVars, loopVars, histVars, monVars, campVars,
                             vendorVars, delivVars, hookVars, pureVars, sysVars,
                             customerDocs, custWrites, events, bulkDocs>>

\* the records of the job: customers[0], customers[1], ...
RecordsOf(job) == [k \in 1..job.data.records |-> k]

CountBatchImportedOnly(im, batch, stored) ==
  [im EXCEPT !.i = @ + BulkBatchSize,
             !.processed = @ \o batch,
             !.imported = IF stored THEN @ + Len(batch) ELSE @]

\* customer.consumer.js:265-288: the bookkeeping of one iteration: the batch
\* is counted as imported, or as failed with an errors entry for its number
CountBatch(im, batch, stored) ==
  [im EXCEPT !.i = @ + BulkBatchSize,
             !.processed = @ \o batch,
             !.imported = IF stored THEN @ + Len(batch) ELSE @,
             !.failed = IF stored THEN @ ELSE @ + Len(batch),
             !.errors = IF stored THEN @ ELSE Append(@, (im.i \div BulkBatchSize) + 1)]

\* customer.consumer.js:265-288: one iteration of the batch loop: insertMany
\* stores the batch, or throws after storing none of it or (ordered: false)
\* all but one record; the inner catch counts the batch as failed
BulkImportBatch(l) ==
  /\ InCustomerHandler(l, "BULK_IMPORT_CUSTOMERS")
  /\ imp[l].at = "batch"
  /\ imp[l].i < cur[l].data.records
  /\ LET batch == Slice(RecordsOf(cur[l]), imp[l].i, imp[l].i + BulkBatchSize)
     IN \E res \in {"stored", "none", "partial"} :
          LET inserted == IF res = "stored" THEN Len(batch)
                          ELSE IF res = "partial" THEN Len(batch) - 1 ELSE 0
          IN /\ res = "partial" => Len(batch) > 1
             /\ res # "stored" => faults < MaxCampFaults
             /\ faults' = IF res = "stored" THEN faults ELSE faults + 1
             /\ bulkDocs' = bulkDocs + inserted
             /\ custWrites' = IF inserted > 0
                                THEN custWrites \cup {<<cur[l].ref, cur[l].type>>}
                                ELSE custWrites
             /\ imp' = [imp EXCEPT ![l] = CountBatch(@, batch, res = "stored")]
  /\ UNCHANGED <<client, lists, nextRef, nextId, loopVars, histVars, monVars, campVars,
                 vendorVars, delivVars, hookVars, pureVars, sysVars, customerDocs, events,
                 verifiedRefs>>

\* customer.consumer.js:290-310: the completion event is published with the
\* results and the handler returns; a failing publish goes to the outer catch
BulkImportFinish(l) ==
  /\ InCustomerHandler(l, "BULK_IMPORT_CUSTOMERS")
  /\ imp[l].at = "batch"
  /\ imp[l].i >= cur[l].data.records
  /\ \E fp \in {"none", "publish"}, cp \in BOOLEAN :
       FinishCustomerJob(l,
         IF fp = "publish"
           THEN Thrown(customerDocs, "PublishError", TRUE)
           ELSE Returned(customerDocs, FALSE,
                         [NoEvent EXCEPT !.type = "customer.bulk.import.completed",
                                         !.userId = cur[l].data.userId,
                                         !.imported = imp[l].imported,
                                         !.failed = imp[l].failed,
                                         !.errors = Len(imp[l].errors)], FALSE),
         fp, "customer.bulk.import.failed", cp)

\* customer.consumer.js:314-334: the catch block logs and rethrows
UpdateCustomerStats(l) ==
  /\ InCustomerHandler(l, "UPDATE_CUSTOMER_STATS")
  /\ \E fp \in {"none", "update"} :
       FinishCustomerJob(l, UpdateCustomerStatsRun(customerDocs, cur[l].data, fp), fp,
                         "none", FALSE)

\* customer.consumer.js:78-84: default: throw new Error(`Unknown job type: ...`),
\* rethrown by the catch block of processCustomerJob
UnknownCustomerJob(l) ==
  /\ pc[l] = "handler"
  /\ lq[l] = CustomerQueue
  /\ cur[l].type \notin CustomerJobTypes
  /\ JobFailed(l, "Unknown job type")
  /\ UNCHANGED <<client, nextRef, faults, lq, enq, handed, monVars, campVars, extVars>>

(***************************************************************************)
(* Publish and subscribe.  A message is what travels on a channel: the     *)
(* JSON text of an event (kind "json"), text that JSON.parse rejects       *)
(* ("raw") or the JSON text `null` ("null").                               *)
(***************************************************************************)
EventTypes == {"customer.activity.updated", "customer.created"}

\* handleCustomerEvent is what the customer consumer registers
\* (customer.consumer.js:21); "callback" is a synchronous function that
\* another module registers with subscribe
Handlers == {"handleCustomerEvent", "callback"}

\* how an invocation of the handler with this payload can end.
\* handleCustomerEvent is async and catches what its switch throws
\* (customer.consumer.js:38-54); only reading event.type of null, before the
\* try (36), makes it reject
HandlerOutcomes(handler, payload) ==
  IF handler = "handleCustomerEvent"
    THEN IF payload = "null" THEN {"rejects"} ELSE {"returns"}
    ELSE {"returns", "throws"}

Invocation(ch, m, payload, outcome) ==
  [channel |-> ch, id |-> m.id, payload |-> payload,
   raw |-> IF payload = "error" THEN m.id ELSE 0, outcome |-> outcome]

OnMessageDropsInvalid(ch, m, o1, o2) ==
  IF m.kind = "raw"
    THEN [calls |-> <<>>, escaped |-> FALSE]
    ELSE [calls |-> <<Invocation(ch, m, IF m.kind = "null" THEN "null" ELSE "event", o1)>>,
          escaped |-> o1 = "throws"]

\* redis.js:79-87, the function subscribe gives to the client: JSON.parse and
\* callback(parsedMessage) in one try; the catch calls callback({error, raw}).
\* o1 and o2 are the outcomes of the first and of the second invocation
OnMessage(ch, m, o1, o2) ==
  IF m.kind = "raw"
    THEN [calls |-> <<Invocation(ch, m, "error", o1)>>, escaped |-> o1 = "throws"]
    ELSE LET first == Invocation(ch, m, IF m.kind = "null" THEN "null" ELSE "event", o1)
         IN IF o1 = "throws"
              THEN [calls |-> <<first, Invocation(ch, m, "error", o2)>>,
                    escaped |-> o2 = "throws"]
              ELSE [calls |-> <<first>>, escaped |-> FALSE]

\* redis.js:77-93 subscribe(channel, callback)
Subscribe(ch, handler) ==
  /\ client # "null"
  /\ subs[ch] = "none"
  /\ subs' = [subs EXCEPT ![ch] = handler]
  /\ UNCHANGED <<brokerVars, loopVars, histVars, monVars, campVars, vendorVars, delivVars,
                 hookVars, custVars, pureVars, proc, sigRefs, wire, nextEvent, published,
                 delivered, calls, escaped, rejected>>

\* the broker hands a message published on ch to the subscriber of ch, if
\* there is one
Sent(ch, m) ==
  /\ nextEvent' = nextEvent + 1
  /\ IF subs[ch] # "none"
       THEN /\ wire' = [wire EXCEPT ![ch] = Append(@, m)]
            /\ published' = [published EXCEPT ![ch] = Append(@, m.id)]
       ELSE UNCHANGED <<wire, published>>

\* redis.js:60-74 publish(channel, message), as called by the handlers and by
\* publishTestEvent (VENDOR_API_DOCUMENTATION.md:654-670); a broker error is
\* rethrown and nothing is sent
PublishEvent ==
  /\ nextEvent < MaxEvents
  /\ client = "ready"
  /\ \E ch \in Channels, t \in EventTypes :
       Sent(ch, [id |-> nextEvent + 1, kind |-> "json", type |-> t])
  /\ UNCHANGED <<brokerVars, loopVars, histVars, monVars, campVars, vendorVars, delivVars,
                 hookVars, custVars, pureVars, proc, sigRefs, subs, delivered, calls,
                 escaped, rejected>>

\* another client of the broker publishes text on the channel
ExternalPublish ==
  /\ nextEvent < MaxEvents
  /\ client = "ready"
  /\ \E ch \in Channels, k \in {"raw", "null"} :
       Sent(ch, [id |-> nextEvent + 1, kind |-> k, type |-> "none"])
  /\ UNCHANGED <<brokerVars, loopVars, histVars, monVars, campVars, vendorVars, delivVars,
                 hookVars, custVars, pureVars, proc, sigRefs, subs, delivered, calls,
                 escaped, rejected>>

\* the subscriber's client emits the next message of ch: the function of
\* redis.js:79-87 runs with it
Deliver(ch) ==
  /\ wire[ch] # <<>>
  /\ subs[ch] # "none"
  /\ LET m == Head(wire[ch])
         p1 == IF m.kind = "raw" THEN "error" ELSE IF m.kind = "null" THEN "null" ELSE "event"
     IN \E o1 \in HandlerOutcomes(subs[ch], p1), o2 \in HandlerOutcomes(subs[ch], "error") :
          LET r == OnMessage(ch, m, o1, o2)
          IN /\ calls' = calls \o r.calls
             /\ escaped' = IF r.escaped THEN escaped \cup {m.id} ELSE escaped
             /\ rejected' = IF \E i \in 1..Len(r.calls) : r.calls[i].outcome = "rejects"
                              THEN rejected \cup {m.id} ELSE rejected
             /\ delivered' = delivered \cup {m}
             /\ wire' = [wire EXCEPT ![ch] = Tail(@)]
  /\ UNCHANGED <<brokerVars, loopVars, histVars, monVars, campVars, vendorVars, delivVars,
                 hookVars, custVars, pureVars, proc, sigRefs, subs, nextEvent, published>>

(***************************************************************************)
(* Shutdown of the process (index.js:19-40).                               *)
(***************************************************************************)
\* the jobs whose handler invocation has started and not ended
InFlight == {cur[l].ref : l \in {k \in Loops : pc[k] = "handler"}}

\* index.js:39-40 and 19-25: SIGTERM or SIGINT arrives and gracefulShutdown
\* calls stop() on both consumers; stop() only clears isRunning
\* (customer.consumer.js:354-357, campaign.consumer.js:240-243), which the
\* while (true) of processQueue never reads, so the loops go on
ShutdownSignal ==
  /\ proc = "running"
  /\ proc' = "stopping"
  /\ sigRefs' = InFlight
  /\ UNCHANGED <<brokerVars, loopVars, histVars, monVars, campVars, vendorVars, delivVars,
                 hookVars, custVars, pureVars, subs, wire, nextEvent, published, delivered,
                 calls, escaped, rejected>>

\* index.js:28 and redis.js:46-57: the clients quit
ShutdownDisconnect ==
  /\ proc = "stopping"
  /\ proc' = "disconnected"
  /\ client' = IF client = "null" THEN "null" ELSE "closed"
  /\ UNCHANGED <<lists, nextRef, nextId, faults, loopVars, histVars, monVars, campVars,
                 vendorVars, delivVars, hookVars, custVars, pureVars, sigRefs, subs, wire,
                 nextEvent, published, delivered, calls, escaped, rejected>>

\* index.js:30-31 process.exit(0): every loop of the process ends where it is
ShutdownExit ==
  /\ proc = "disconnected"
  /\ proc' = "exited"
  /\ pc' = [l \in Loops |-> "exited"]
  /\ UNCHANGED <<brokerVars, cur, lq, histVars, monVars, campVars, vendorVars, delivVars,
                 hookVars, custVars, pureVars, sigRefs, subs, wire, nextEvent, published,
                 delivered, calls, escaped, rejected>>

\* segment.controller.js:436-458 getCampaignById: the logs of the campaign are
\* counted by status, the total is the audience size of the campaign
CountLogs(c, status) ==
  Cardinality({i \in 1..Len(logs) : logs[i].campaign_id = c /\ logs[i].status = status})

DeliveryStats(c) ==
  [sent |-> CountLogs(c, "sent"), failed |-> CountLogs(c, "failed"),
   pending |-> CountLogs(c, "pending"), total |-> campaigns[c].audience_size]

(***************************************************************************)
(* Monitoring reads.                                                       *)
(***************************************************************************)
QueueStatsPendingOnly(length, failedLength) ==
  [pending |-> length, failed |-> failedLength, total |-> length]

\* redis.js:153-157
QueueStats(length, failedLength) ==
  [pending |-> length, failed |-> failedLength, total |-> length + failedLength]

\* redis.js:158-161
QueueStatsOnError == [pending |-> 0, failed |-> 0, total |-> 0]

\* redis.js:150: the first lLen
StatsRead1 ==
  /\ spc = "idle"
  /\ IF client = "ready"
       THEN /\ sLength' = Len(lists[TestQueue])
            /\ spc' = "len2"
            /\ UNCHANGED statsResult
       ELSE /\ statsResult' = QueueStatsOnError
            /\ UNCHANGED <<spc, sLength>>
  /\ UNCHANGED <<brokerVars, loopVars, histVars, healthResult, campVars, extVars>>

\* redis.js:151-157: the second lLen and the returned value
StatsRead2 ==
  /\ spc = "len2"
  /\ spc' = "idle"
  /\ statsResult' = IF client = "ready"
                      THEN QueueStats(sLength, Len(lists[FailedQueue(TestQueue)]))
                      ELSE QueueStatsOnError
  /\ UNCHANGED <<brokerVars, loopVars, histVars, sLength, healthResult, campVars, extVars>>

HealthOutcomeUnguarded(c) ==
  IF c = "ready"
    THEN [status |-> "healthy", error |-> "none", timestamp |-> "set", raised |-> FALSE]
    ELSE IF c = "down"
      THEN [status |-> "unhealthy", error |-> "ConnectionError", timestamp |-> "set", raised |-> FALSE]
      ELSE [status |-> "none", error |-> "TypeError", timestamp |-> "unset", raised |-> TRUE]

\* redis.js:165-172: ping inside try; on a null client the property access
\* raises a TypeError inside the same try
HealthOutcome(c) ==
  IF c = "ready"
    THEN [status |-> "healthy", error |-> "none", timestamp |-> "set", raised |-> FALSE]
    ELSE [status |-> "unhealthy",
          error |-> IF c = "null" THEN "TypeError" ELSE "ConnectionError",
          timestamp |-> "set", raised |-> FALSE]

HealthCheck ==
  /\ healthResult' = HealthOutcome(client)
  /\ UNCHANGED <<brokerVars, loopVars, histVars, spc, sLength, statsResult, campVars, extVars>>

(***************************************************************************)
(* Specification of the broker and the consumer loops on the test queue.   *)
(***************************************************************************)
Next ==
  \/ Connect
  \/ BrokerFail(MaxFaults)
  \/ BrokerRecover
  \/ AddJob(MaxJobs)
  \/ \E l \in Loops : StartLoop(l, TestQueue)
  \/ \E l \in Loops : Poll(l)
  \/ \E l \in Loops : HandlerReturn(l)
  \/ \E l \in Loops : HandlerThrow(l)
  \/ \E l \in Loops : Backoff(l)

Spec == Init /\ [][Next]_vars

(***************************************************************************)
(* One consumer loop on the queue (one process, index.js:50-58).           *)
(***************************************************************************)
NextSingle ==
  \/ Connect
  \/ BrokerFail(MaxFaults)
  \/ BrokerRecover
  \/ AddJob(MaxJobs)
  \/ StartLoop(1, TestQueue)
  \/ Poll(1)
  \/ HandlerReturn(1)
  \/ HandlerThrow(1)
  \/ Backoff(1)

SpecSingle == Init /\ [][NextSingle]_vars

(***************************************************************************)
(* The loops under fair scheduling: every started step of the event loop   *)
(* is eventually run, handlers terminate, the client reconnects, and the   *)
(* connection drops only finitely often.                                   *)
(***************************************************************************)
NextLive ==
  \/ Connect
  \/ BrokerFail(MaxLiveFaults)
  \/ BrokerRecover
  \/ AddJob(MaxLiveJobs)
  \/ \E l \in Loops : StartLoop(l, TestQueue)
  \/ \E l \in Loops : Poll(l)
  \/ \E l \in Loops : HandlerReturn(l)
  \/ \E l \in Loops : HandlerThrow(l)
  \/ \E l \in Loops : Backoff(l)

LiveFairness ==
  /\ WF_vars(Connect)
  /\ WF_vars(BrokerRecover)
  /\ \A l \in Loops :
       /\ WF_vars(StartLoop(l, TestQueue))
       /\ WF_vars(Poll(l))
       /\ WF_vars(HandlerReturn(l) \/ HandlerThrow(l))
       /\ WF_vars(Backoff(l))

SpecLive == Init /\ [][NextLive]_vars /\ LiveFairness

(***************************************************************************)
(* The monitoring surface next to a running queue.                         *)
(***************************************************************************)
NextMonitor ==
  \/ Connect
  \/ BrokerFail(MaxMonFaults)
  \/ BrokerRecover
  \/ AddJob(MaxMonJobs)
  \/ StartLoop(1, TestQueue)
  \/ Poll(1)
  \/ HandlerReturn(1)
  \/ HandlerThrow(1)
  \/ Backoff(1)
  \/ StatsRead1
  \/ StatsRead2
  \/ HealthCheck

SpecMonitor == Init /\ [][NextMonitor]_vars

(***************************************************************************)
(* Campaign delivery: the controller creates campaigns and queues their    *)
(* jobs, the campaign consumer's loop on campaign.jobs (index.js:57) runs   *)
(* deliverCampaign, the vendor calls back with receipts.                   *)
(***************************************************************************)
NextCampaign ==
  \/ Connect
  \/ BrokerFail(MaxCampFaults)
  \/ BrokerRecover
  \/ CreateCampaign
  \/ SubmitTestJob
  \/ StartLoop(1, CampaignQueue)
  \/ Poll(1)
  \/ Backoff(1)
  \/ ProcessUnknownJob(1)
  \/ DeliverStart(1)
  \/ DeliverLogs(1)
  \/ SendEmail(1)
  \/ BatchError(1)
  \/ DeliverFinish(1)
  \/ DeliverCatch(1)
  \/ DeliveryReceipt

SpecCampaign == Init /\ [][NextCampaign]_vars

(***************************************************************************)
(* One call of createBatches.                                              *)
(***************************************************************************)
\* campaign.consumer.js:220-226 createBatches(array, batchSize), called as in line 74
CallCreateBatches ==
  /\ ~bDone
  /\ bResult' = CreateBatches(bArray, BatchSize)
  /\ bDone' = TRUE
  /\ UNCHANGED <<brokerVars, loopVars, histVars, monVars, campVars,
                 vendorVars, delivVars, hookVars, custVars, sysVars, bArray>>

NextBatches == CallCreateBatches

SpecBatches == InitBatches /\ [][NextBatches]_vars

(***************************************************************************)
(* One campaign delivered in several batches; the vendor decides SENT or   *)
(* FAILED for each email, sendBulkEmails may throw, storage may fail.      *)
(***************************************************************************)
NextDelivery ==
  \/ Connect
  \/ CreateCampaignFor(1, 1..MaxBatchedAudience)
  \/ StartLoop(1, CampaignQueue)
  \/ Poll(1)
  \/ DeliverStart(1)
  \/ DeliverLogs(1)
  \/ SendEmailWith(1, {"SENT", "FAILED"})
  \/ BatchError(1)
  \/ DeliverFinish(1)
  \/ DeliverCatch(1)

SpecDelivery == Init /\ [][NextDelivery]_vars

(***************************************************************************)
(* One campaign of a few customers, sent in one batch; an email is SENT,   *)
(* FAILED or hits an error inside sendEmail.                               *)
(***************************************************************************)
NextBulk ==
  \/ Connect
  \/ CreateCampaignFor(1, 1..MaxVendorBatch)
  \/ StartLoop(1, CampaignQueue)
  \/ Poll(1)
  \/ DeliverStart(1)
  \/ DeliverLogs(1)
  \/ SendEmail(1)
  \/ BatchError(1)
  \/ DeliverFinish(1)
  \/ DeliverCatch(1)

SpecBulk == Init /\ [][NextBulk]_vars

(***************************************************************************)
(* One campaign with the vendor's callbacks and the receipt webhook, which *)
(* other clients can post to as well.                                      *)
(***************************************************************************)
NextVendor ==
  \/ Connect
  \/ CreateCampaignFor(1, 1..MaxAudience)
  \/ StartLoop(1, CampaignQueue)
  \/ Poll(1)
  \/ DeliverStart(1)
  \/ DeliverLogs(1)
  \/ SendEmail(1)
  \/ BatchError(1)
  \/ DeliverFinish(1)
  \/ DeliverCatch(1)
  \/ DeliveryReceipt
  \/ ExternalReceipt

SpecVendor == Init /\ [][NextVendor]_vars

(***************************************************************************)
(* The customer consumer: jobs arrive on customer.jobs from the test route *)
(* and the consumer's loop (customer.consumer.js:24) runs their handlers    *)
(* on a database that holds one customer.                                  *)
(***************************************************************************)
NextCustomers ==
  \/ Connect
  \/ BrokerFail(MaxCampFaults)
  \/ BrokerRecover
  \/ SubmitCustomerJob
  \/ StartLoop(1, CustomerQueue)
  \/ Poll(1)
  \/ Backoff(1)
  \/ CreateCustomer(1)
  \/ UpdateCustomer(1)
  \/ DeleteCustomer(1)
  \/ BulkImportStart(1)
  \/ BulkImportBatch(1)
  \/ BulkImportFinish(1)
  \/ UpdateCustomerStats(1)
  \/ UnknownCustomerJob(1)

SpecCustomers == InitCustomers /\ [][NextCustomers]_vars

(***************************************************************************)
(* One bulk import: a BULK_IMPORT_CUSTOMERS job of a verified user with    *)
(* 0..MaxBulkRecords records, taken by the customer consumer's loop.       *)
(***************************************************************************)
\* VENDOR_API_DOCUMENTATION.md:592-608 submitTestJob with a bulk import
SubmitBulkImportJob ==
  /\ nextRef = 0
  /\ \E n \in 0..MaxBulkRecords :
       AddToQueue(CustomerQueue,
                  [NewJob(nextRef + 1, "BULK_IMPORT_CUSTOMERS", 0, 0) EXCEPT
                     !.data = [NoData EXCEPT !.userId = 1, !.userEmail = "u1",
                                             !.records = n]])
  /\ UNCHANGED <<client, faults, loopVars, handed, okRefs, threw, dlError, monVars,
                 campVars, extVars>>

NextBulkImport ==
  \/ Connect
  \/ SubmitBulkImportJob
  \/ StartLoop(1, CustomerQueue)
  \/ Poll(1)
  \/ BulkImportStart(1)
  \/ BulkImportBatch(1)
  \/ BulkImportFinish(1)

SpecBulkImport == InitCustomers /\ [][NextBulkImport]_vars

(***************************************************************************)
(* Events: the customer consumer and another module subscribe, the         *)
(* application and other clients of the broker publish.                    *)
(***************************************************************************)
NextPubSub ==
  \/ Connect
  \/ Subscribe(CustomerEvents, "handleCustomerEvent")
  \/ Subscribe(OtherEvents, "callback")
  \/ PublishEvent
  \/ ExternalPublish
  \/ \E ch \in Channels : Deliver(ch)

SpecPubSub == Init /\ [][NextPubSub]_vars

(***************************************************************************)
(* The process with the customer consumer, and its shutdown.               *)
(***************************************************************************)
NextShutdown ==
  \/ Connect
  \/ proc = "running" /\ SubmitCustomerJob
  \/ StartLoop(1, CustomerQueue)
  \/ Poll(1)
  \/ Backoff(1)
  \/ CreateCustomer(1)
  \/ UpdateCustomer(1)
  \/ DeleteCustomer(1)
  \/ BulkImportStart(1)
  \/ BulkImportBatch(1)
  \/ BulkImportFinish(1)
  \/ UpdateCustomerStats(1)
  \/ UnknownCustomerJob(1)
  \/ ShutdownSignal
  \/ ShutdownDisconnect
  \/ ShutdownExit

SpecShutdown == InitCustomers /\ [][NextShutdown]_vars

(***************************************************************************)
(* Competing consumers, each in a process of its own that can die inside   *)
(* a handler.                                                              *)
(***************************************************************************)
NextCrash ==
  \/ Connect
  \/ BrokerFail(MaxFaults)
  \/ BrokerRecover
  \/ AddJob(MaxJobs)
  \/ \E l \in Loops : StartLoop(l, TestQueue)
  \/ \E l \in Loops : Poll(l)
  \/ \E l \in Loops : HandlerReturn(l)
  \/ \E l \in Loops : HandlerThrow(l)
  \/ \E l \in Loops : Backoff(l)
  \/ \E l \in Loops : ConsumerCrash(l)

SpecCrash == Init /\ [][NextCrash]_vars

(***************************************************************************)
(* Delivery of campaigns of up to two batches together with the receipt    *)
(* callbacks that the vendor scheduled, while the storage and the vendor   *)
(* answer (no fault is injected and every email is accepted).              *)
(***************************************************************************)
NextOrder ==
  \/ Connect
  \/ CreateCampaignFor(1, 1..MaxBatchedAudience) /\ UNCHANGED faults
  \/ StartLoop(1, CampaignQueue)
  \/ Poll(1)
  \/ DeliverStart(1) /\ UNCHANGED faults
  \/ DeliverLogs(1) /\ UNCHANGED faults
  \/ SendEmailWith(1, {"SENT"})
  \/ DeliverFinish(1) /\ UNCHANGED faults
  \/ DeliveryReceipt /\ UNCHANGED faults

SpecOrder == Init /\ [][NextOrder]_vars

(***************************************************************************)
(* Delivery of a small campaign together with the receipt callbacks that   *)
(* the vendor scheduled, which can be processed, refused or lost.          *)
(***************************************************************************)
NextReceipts ==
  \/ Connect
  \/ CreateCampaignFor(1, 1..MaxReceiptAudience)
  \/ StartLoop(1, CampaignQueue)
  \/ Poll(1)
  \/ DeliverStart(1)
  \/ DeliverLogs(1)
  \/ SendEmail(1)
  \/ BatchError(1)
  \/ DeliverFinish(1)
  \/ DeliverCatch(1)
  \/ DeliveryReceipt
  \/ ReceiptLost

SpecReceipts == Init /\ [][NextReceipts]_vars

ReceiptFairness ==
  /\ WF_vars(Connect)
  /\ WF_vars(StartLoop(1, CampaignQueue))
  /\ WF_vars(Poll(1))
  /\ WF_vars(DeliverStart(1))
  /\ WF_vars(DeliverLogs(1))
  /\ WF_vars(SendEmail(1))
  /\ WF_vars(DeliverFinish(1))
  /\ WF_vars(DeliverCatch(1))
  /\ WF_vars(DeliveryReceipt)

\* the same program, in which the consumer loop keeps running and every
\* timer of a scheduled callback fires
SpecReceiptsLive == Init /\ [][NextReceipts]_vars /\ ReceiptFairness

(***************************************************************************)
(* Two consumer loops on customer.jobs (two instances of the server), with *)
(* createCustomer in its two steps.                                        *)
(***************************************************************************)
NextCreateRace ==
  \/ Connect
  \/ SubmitCreateJob
  \/ \E l \in Loops : StartLoop(l, CustomerQueue)
  \/ \E l \in Loops : Poll(l)
  \/ \E l \in Loops : CreateCustomerCheck(l)
  \/ \E l \in Loops : CreateCustomerSave(l)

SpecCreateRace == Init /\ [][NextCreateRace]_vars

CampaignFairness ==
  /\ WF_vars(Connect)
  /\ WF_vars(BrokerRecover)
  /\ WF_vars(StartLoop(1, CampaignQueue))
  /\ WF_vars(Poll(1))
  /\ WF_vars(Backoff(1))
  /\ WF_vars(DeliverStart(1))
  /\ WF_vars(DeliverLogs(1))
  /\ WF_vars(SendEmail(1))
  /\ WF_vars(DeliverFinish(1))
  /\ WF_vars(DeliverCatch(1))
  /\ WF_vars(DeliveryReceipt)

\* the campaign program once the HTTP server listens, which is after the
\* connection to the broker was made (index.js:50-60); the broker comes back
\* after a failure, the consumer loop keeps running and every handler step
\* is taken
NextCampaignLive ==
  \/ Connect
  \/ BrokerFail(MaxCampFaults)
  \/ BrokerRecover
  \/ client # "null" /\ CreateCampaign
  \/ StartLoop(1, CampaignQueue)
  \/ Poll(1)
  \/ Backoff(1)
  \/ DeliverStart(1)
  \/ DeliverLogs(1)
  \/ SendEmail(1)
  \/ BatchError(1)
  \/ DeliverFinish(1)
  \/ DeliverCatch(1)
  \/ DeliveryReceipt

SpecCampaignLive == Init /\ [][NextCampaignLive]_vars /\ CampaignFairness

(***************************************************************************)
(* Properties of the broker and the consumer loop.                         *)
(***************************************************************************)
FailedList == lists[FailedQueue(TestQueue)]
ThrewRefs == {p[1] : p \in threw}
ProducerJob(r) == CHOOSE j \in SeqSet(enq) : j.ref = r
AsProduced(e) ==
  [e EXCEPT !.id = 0, !.status = "none", !.error = "none", !.failedAt = "unset"]
NoDuplicates(s) == \A i, j \in 1..Len(s) : s[i] = s[j] => i = j

\* C1 (as claimed): every job whose handler threw has exactly one entry in
\* `q:failed`, with the job's type and payload and the error and failedAt
\* annotations.
C1_ExactlyOneDeadLetter ==
  \A p \in threw :
    /\ Cardinality(EntriesOf(FailedList, p[1])) = 1
    /\ \A i \in EntriesOf(FailedList, p[1]) :
         /\ AsProduced(FailedList[i]) = ProducerJob(p[1])
         /\ FailedList[i].error = p[2]
         /\ FailedList[i].failedAt = "set"

\* C1 (amended): a job whose handler threw has exactly one annotated entry in
\* `q:failed` when the dead-letter addToQueue succeeds, and no entry when that
\* addToQueue fails with a broker error; never more than one.
C1_DeadLetterUnlessPushFails ==
  \A p \in threw :
    /\ Cardinality(EntriesOf(FailedList, p[1])) = IF p[1] \in dlError THEN 0 ELSE 1
    /\ \A i \in EntriesOf(FailedList, p[1]) :
         /\ AsProduced(FailedList[i]) = ProducerJob(p[1])
         /\ FailedList[i].error = p[2]
         /\ FailedList[i].failedAt = "set"

\* a handler threw while the broker was reachable, and another one while it was not
C1_Witness ==
  /\ \E p \in threw : p[1] \notin dlError /\ EntriesOf(FailedList, p[1]) # {}
  /\ \E p \in threw : p[1] \in dlError

\* C2: a job whose handler returned without throwing has no entry in `q:failed`.
C2_SuccessNotDeadLettered ==
  \A r \in okRefs : EntriesOf(FailedList, r) = {}

\* a handler returned while the dead-letter list already holds another job
C2_Witness == okRefs # {} /\ FailedList # <<>>

\* C5: with competing loops every job is handed to a handler at most once: no
\* ref is handed twice, no two loops hold the same job, and a job that was
\* handed over is never on the original queue again.
C5_AtMostOnce ==
  /\ NoDuplicates(handed)
  /\ \A l1, l2 \in Loops :
       (l1 # l2 /\ pc[l1] = "handler" /\ pc[l2] = "handler") => cur[l1].ref # cur[l2].ref
  /\ \A r \in SeqSet(handed) : r \notin Refs(lists[TestQueue])

\* two loops are inside their handlers at once, after a handler failure was dead-lettered
C5_Witness ==
  /\ \E l1, l2 \in Loops : l1 # l2 /\ pc[l1] = "handler" /\ pc[l2] = "handler"
  /\ FailedList # <<>>

\* C6: when brPop fails (the client is not ready at the poll), that iteration
\* hands nothing to a handler and adds nothing to `q:failed`; the loop goes to
\* its wait, and from the wait only back to polling.
C6_BrokerErrorBacksOff ==
  [][\A l \in Loops :
       /\ (pc[l] = "poll" /\ client # "ready" /\ pc'[l] # "poll") =>
            /\ pc'[l] = "backoff"
            /\ handed' = handed
            /\ cur'[l] = NoJob
            /\ lists' = lists
       /\ (pc[l] = "backoff" /\ pc'[l] # "backoff") =>
            /\ pc'[l] = "poll"
            /\ handed' = handed
            /\ lists' = lists]_vars

\* a loop waits after a failed brPop (no dead-letter push has failed) and jobs are queued
C6_Witness ==
  /\ \E l \in Loops : pc[l] = "backoff"
  /\ dlError = {}
  /\ lists[TestQueue] # <<>>

\* C4: with one loop the handler sees the jobs in the order of their
\* addToQueue calls, and every job but the last handed one has finished.
C4_SingleLoopFifo ==
  /\ Len(handed) <= Len(enq)
  /\ \A i \in 1..Len(handed) : handed[i] = enq[i].ref
  /\ \A i \in 1..(Len(handed) - 1) : handed[i] \in okRefs \cup ThrewRefs

\* three jobs were handed over, one of them enqueued while an earlier one waited
C4_Witness == Len(handed) >= 3 /\ threw # {} /\ okRefs # {}

\* C3: a loop that is in a handler or in its wait polls again, and every job
\* on the queue is eventually handed to a handler.
C3_LoopKeepsServing ==
  /\ \A l \in Loops : [](pc[l] \in {"handler", "backoff"} => <>(pc[l] = "poll"))
  /\ \A r \in 1..MaxLiveJobs :
       (r \in Refs(lists[TestQueue])) ~> (r \in SeqSet(handed))

\* a job is handed over after an earlier handler failure and a broker error
C3_Witness ==
  /\ \E l \in Loops : pc[l] = "handler"
  /\ threw # {}
  /\ faults > 0

C8_HealthNeverRaises ==
  healthResult.status # "none" \/ healthResult.error # "none" =>
    /\ ~healthResult.raised
    /\ healthResult.status \in {"healthy", "unhealthy"}
    /\ healthResult.timestamp = "set"

\* healthCheck was called on a client that was never connected
C8_Witness == healthResult.error = "TypeError"

(***************************************************************************)
(* Campaign lifecycle (SpecCampaign).  Each campaign has the one           *)
(* DELIVER_CAMPAIGN job that createCampaign enqueues for it; a job of the  *)
(* test route carries no campaignId.                                       *)
(***************************************************************************)

C10_CompletedAtIffTerminal ==
  \A c \in CampaignIds :
    (campaigns[c].completed_at = "set") <=> (campaigns[c].status \in {"completed", "failed"})

\* C10 witness: a delivery ended in the catch block after the campaign had
\* been started, and the campaign is failed with completed_at set.
C10_Witness ==
  \E c \in CampaignIds :
    /\ campaigns[c].status = "failed"
    /\ campaigns[c].started_at = "set"
    /\ campaigns[c].completed_at = "set"

(***************************************************************************)
(* createBatches (SpecBatches).                                            *)
(***************************************************************************)
Ceil(n, d) == (n + d - 1) \div d

RECURSIVE Concat(_)
Concat(ss) == IF ss = <<>> THEN <<>> ELSE Head(ss) \o Concat(Tail(ss))

\* C11: for a recipient list of length N, createBatches(list, 10) returns
\* ceil(N/10) batches, each of at most 10 recipients and all but the last of
\* exactly 10, whose concatenation in order is the original list.
C11_CreateBatchesPartition ==
  bDone =>
    /\ Len(bResult) = Ceil(Len(bArray), 10)
    /\ \A k \in 1..Len(bResult) :
         /\ Len(bResult[k]) <= 10
         /\ Len(bResult[k]) >= 1
         /\ k < Len(bResult) => Len(bResult[k]) = 10
    /\ Concat(bResult) = bArray

\* C11 witness: 25 recipients came back as batches of 10, 10 and 5
C11_Witness ==
  /\ bDone
  /\ Len(bArray) = 25
  /\ Len(bResult) = 3
  /\ Len(bResult[3]) = 5
  /\ bResult[2][1] = bArray[11]

(***************************************************************************)
(* Delivery statistics (SpecDelivery).                                     *)
(***************************************************************************)

\* C12: whenever deliverCampaign has set a campaign to completed, the stored
\* delivery_stats have total = audience_size (the number of recipients) and
\* sent + failed = total, for every mix of per-email vendor outcomes and
\* batch-level vendor exceptions.
C12_CompletedStatsAddUp ==
  \A c \in CampaignIds :
    campaigns[c].status = "completed" =>
      /\ campaigns[c].delivery_stats.total = campaigns[c].audience_size
      /\ campaigns[c].delivery_stats.sent + campaigns[c].delivery_stats.failed
           = campaigns[c].delivery_stats.total

\* C12 witness: a campaign of 11 recipients completed after a first batch of
\* 10 with both outcomes and a second batch whose sendBulkEmails call threw
C12_Witness ==
  \E c \in CampaignIds :
    /\ campaigns[c].status = "completed"
    /\ campaigns[c].audience_size = 11
    /\ campaigns[c].delivery_stats.sent >= 2
    /\ campaigns[c].delivery_stats.failed >= 3
    /\ Len(forced) = 1
    /\ forced[1].ids = {11}

(***************************************************************************)
(* Failures inside deliverCampaign (SpecCampaign).                         *)
(***************************************************************************)
LastForced == forced'[Len(forced')]

\* what a step that adds to `forced` does to the count of the delivery whose
\* batch it is, and to the scheduled callbacks
BatchCountedFailed ==
  /\ \A l \in Loops :
       (h[l].at = "send" /\ SeqSet(h[l].batchLogs) = LastForced.ids) =>
         /\ h'[l].failedCount = h[l].failedCount + Cardinality(LastForced.ids)
         /\ h'[l].sentCount = h[l].sentCount
  /\ receipts' = receipts

BatchLogsFailed ==
  \A i \in 1..Len(logs') :
    logs'[i].message_id \in LastForced.ids =>
      /\ logs'[i].status = "failed"
      /\ logs'[i].failure_reason = "Batch processing error"
      /\ logs'[i].delivered_at = "set"

CampaignFailedList == lists[FailedQueue(CampaignQueue)]

\* the deliveries that threw: <<ref, message, campaign>> for the jobs that
\* createCampaign enqueued
ThrownDeliveries ==
  {<<p[1], p[2], ProducerJob(p[1]).campaignId>> : p \in
     {q \in threw : ProducerJob(q[1]).type = "DELIVER_CAMPAIGN"
                     /\ ProducerJob(q[1]).campaignId > 0}}

DeadLetteredWith(ref, msg) ==
  /\ Cardinality(EntriesOf(CampaignFailedList, ref)) = 1
  /\ \A i \in EntriesOf(CampaignFailedList, ref) : CampaignFailedList[i].error = msg

\* C14 (as stated): when a step of deliverCampaign outside the per-batch send
\* handling throws, the campaign ends with status failed, completed_at set and
\* failure_reason equal to the error message, and the DELIVER_CAMPAIGN job is
\* added to campaign.jobs:failed.
C14_FailureMarksAndDeadLetters ==
  \A d \in ThrownDeliveries :
    /\ campaigns[d[3]].status = "failed"
    /\ campaigns[d[3]].completed_at = "set"
    /\ campaigns[d[3]].failure_reason = d[2]
    /\ DeadLetteredWith(d[1], d[2])

\* C14 (amended): the campaign ends failed with completed_at and the error
\* message when the update in the catch block succeeds; when that update throws
\* too, the campaign keeps the status it had and the update's error is the one
\* thrown on.  The job is added to campaign.jobs:failed with the thrown error
\* when the dead-letter addToQueue succeeds, and is in no list when the broker
\* is unreachable at that moment.
C14_FailureMarksUnlessUpdateFails ==
  \A d \in ThrownDeliveries :
    /\ d[1] \notin lostUpdate =>
         /\ campaigns[d[3]].status = "failed"
         /\ campaigns[d[3]].completed_at = "set"
         /\ campaigns[d[3]].failure_reason = d[2]
    /\ d[1] \in lostUpdate =>
         /\ campaigns[d[3]].status \in {"pending", "processing"}
         /\ campaigns[d[3]].completed_at = "unset"
         /\ campaigns[d[3]].failure_reason = "none"
         /\ d[2] = "StorageError"
    /\ d[1] \notin dlError => DeadLetteredWith(d[1], d[2])
    /\ d[1] \in dlError => EntriesOf(CampaignFailedList, d[1]) = {}

\* C14 witness: the insertion of the logs threw after the campaign had been
\* started; the campaign is failed with that error and the job is dead-lettered
C14_Witness ==
  \E d \in ThrownDeliveries :
    /\ d[1] \notin lostUpdate
    /\ d[1] \notin dlError
    /\ campaigns[d[3]].status = "failed"
    /\ campaigns[d[3]].started_at = "set"
    /\ campaigns[d[3]].failure_reason = "StorageError"
    /\ logs = <<>>
    /\ DeadLetteredWith(d[1], "StorageError")

(***************************************************************************)
(* Properties of the webhook and of the vendor simulator.                  *)
(***************************************************************************)
\* a step in which handleDeliveryReceipt answered a request
ReceiptHandled == receiptResponse'.n = receiptResponse.n + 1

\* C15: a delivery receipt whose messageId matches no CommunicationLog is
\* answered with 404 (a receipt with both required fields, while the storage
\* answers), and it leaves every CommunicationLog and every Campaign as it was:
\* no log is created or modified.
C15_UnmatchedReceiptChangesNothing ==
  [][(ReceiptHandled /\ ~HasLog(logs, receiptResponse'.messageId)) =>
       /\ logs' = logs
       /\ campaigns' = campaigns
       /\ mutations' = mutations
       /\ receiptResponse'.code \in {400, 404, 500}
       /\ (receiptResponse'.messageId # 0 /\ receiptResponse'.status # "none"
           /\ receiptResponse'.code # 500) => receiptResponse'.code = 404]_vars

\* C15 witness: logs exist and a receipt for a message id that none of them has
\* was answered with 404
C15_Witness ==
  /\ receiptResponse.code = 404
  /\ receiptResponse.messageId = -1
  /\ receiptResponse.status \in {"SENT", "FAILED"}
  /\ Len(logs) > 0
  /\ \E c \in DOMAIN campaigns : Exists(campaigns, c)

\* C16: each CommunicationLog is mutated at most once after its creation,
\* by the vendor's delivery receipt or by the batch-level force-fail, never
\* by both and never twice.
C16_LogMutatedOnce ==
  \A i \in 1..Len(mutations) : mutations[i].receipt + mutations[i].force <= 1

DispatchTable(q) == IF q = CustomerQueue THEN CustomerJobTypes ELSE {"DELIVER_CAMPAIGN"}

\* C19: for the customer and the campaign consumer, a job whose type is not
\* in the consumer's dispatch table is dropped: its handler does not throw and
\* the job is not added to the dead-letter list of its queue.
C19_UnknownTypeNotDeadLettered ==
  /\ \A p \in threw : ProducerJob(p[1]).type \in CustomerJobTypes \cup {"DELIVER_CAMPAIGN"}
  /\ \A q \in {CustomerQueue, CampaignQueue} :
       \A i \in 1..Len(lists[FailedQueue(q)]) :
         lists[FailedQueue(q)][i].type \in DispatchTable(q)

\* C20: a job writes to the Customer collection only if its userId names a
\* user whose email is the job's userEmail.
C20_WritesOnlyForVerifiedPrincipal ==
  \A w \in custWrites : Verified(ProducerJob(w[1]).data)

\* the event types the handlers publish (customer.consumer.js:119-303)
FailureEventTypes ==
  {"customer.creation.failed", "customer.update.failed", "customer.deletion.failed",
   "customer.bulk.import.failed"}
CompletionEventTypes ==
  {"customer.created", "customer.updated", "customer.deleted",
   "customer.bulk.import.completed"}

CustomerFailedList == lists[FailedQueue(CustomerQueue)]
EventsOf(ref, types) == {i \in 1..Len(events) : events[i].ref = ref /\ events[i].type \in types}

\* C21: whenever the handler of a customer job fails, of whatever type and
\* for whatever cause, a typed failure event with the error message has been
\* published on customer.events and the job is dead-lettered (stated here for
\* the runs in which the broker accepts the publish and the dead-letter push).
C21_FailureEventAndDeadLetter ==
  \A p \in threw :
    (/\ ProducerJob(p[1]).type \in CustomerJobTypes
     /\ p[2] # "PublishError"
     /\ p[1] \notin dlError) =>
      /\ \E i \in EventsOf(p[1], FailureEventTypes) : events[i].error = p[2]
      /\ \E i \in EntriesOf(CustomerFailedList, p[1]) : CustomerFailedList[i].error = p[2]

\* C22: whenever the persistence operation of a customer job has succeeded and
\* its handler has ended, exactly one typed completion event was published for
\* it (with the entity's id, for the jobs about one customer) and the job is
\* not dead-lettered (stated here for the runs in which the broker accepts
\* the publish).
C22_CompletionEventOnSuccess ==
  \A w \in custWrites :
    (/\ w[1] \in okRefs \cup ThrewRefs
     /\ <<w[1], "PublishError">> \notin threw) =>
      /\ Cardinality(EventsOf(w[1], CompletionEventTypes)) = 1
      /\ \A i \in EventsOf(w[1], CompletionEventTypes) :
           w[2] # "BULK_IMPORT_CUSTOMERS" => events[i].customerId # 0
      /\ w[1] \notin ThrewRefs
      /\ EntriesOf(CustomerFailedList, w[1]) = {}

(***************************************************************************)
(* Bulk import (SpecBulkImport).                                           *)
(***************************************************************************)
RECURSIVE FailedBatchTotal(_, _)
\* the number of records in the batches whose numbers are in errs, of n records
FailedBatchTotal(errs, n) ==
  IF errs = <<>> THEN 0
  ELSE Min(BulkBatchSize, n - BulkBatchSize * (Head(errs) - 1))
         + FailedBatchTotal(Tail(errs), n)

\* the running bulk import of loop 1 has sliced the first records, in order and
\* 100 at a time, has counted each of them once, and has one errors entry for
\* each failed batch
BulkImportBookkeeping ==
  (cur[1].type = "BULK_IMPORT_CUSTOMERS" /\ imp[1].at = "batch") =>
    LET n == cur[1].data.records
        im == imp[1]
    IN /\ im.i % BulkBatchSize = 0
       /\ im.processed = SubSeq(RecordsOf(cur[1]), 1, Min(im.i, n))
       /\ im.imported + im.failed = Len(im.processed)
       /\ im.failed = FailedBatchTotal(im.errors, n)
       /\ \A a, b \in 1..Len(im.errors) : a < b => im.errors[a] < im.errors[b]
       /\ \A a \in 1..Len(im.errors) : im.errors[a] \in 1..(im.i \div BulkBatchSize)

\* the completion event of an ended bulk import carries results that add up
BulkImportResults ==
  \A r \in okRefs :
    /\ Cardinality(EventsOf(r, {"customer.bulk.import.completed"})) = 1
    /\ \A i \in EventsOf(r, {"customer.bulk.import.completed"}) :
         /\ events[i].imported + events[i].failed = ProducerJob(r).data.records
         /\ (events[i].failed = 0) = (events[i].errors = 0)
    /\ EntriesOf(CustomerFailedList, r) = {}

DuplicateCreateEnds ==
  /\ pc[1] = "handler"
  /\ pc'[1] # "handler"
  /\ cur[1].type = "CREATE_CUSTOMER"
  /\ \E c \in DOMAIN customerDocs :
       /\ customerDocs[c].email = cur[1].data.email
       /\ customerDocs[c].created_by = cur[1].data.userId

\* what such a step leaves: the collection as it was and the job thrown
DuplicateCreateFails ==
  /\ customerDocs' = customerDocs
  /\ cur[1].ref \in {p[1] : p \in threw'}
  /\ cur[1].ref \notin okRefs'

FailureEventAdded(types) ==
  /\ Len(events') = Len(events) + 1
  /\ events'[Len(events')].type \in types
  /\ events'[Len(events')].ref = cur[1].ref
  /\ <<cur[1].ref, events'[Len(events')].error>> \in threw'

DeadLetterAdded ==
  /\ Len(CustomerFailedList') = Len(CustomerFailedList) + 1
  /\ CustomerFailedList'[1].ref = cur[1].ref
  /\ <<cur[1].ref, CustomerFailedList'[1].error>> \in threw'

\* C24 (as stated): a CREATE_CUSTOMER job for an email that already exists
\* under the same user fails: no second customer is stored, a
\* customer.creation.failed event is published and the job is dead-lettered.
C24_DuplicateCreateFails ==
  [][DuplicateCreateEnds =>
       /\ DuplicateCreateFails
       /\ FailureEventAdded({"customer.creation.failed"})
       /\ DeadLetterAdded]_vars

\* C24 (amended): such a job fails and no second customer is stored; the
\* customer.creation.failed event is published unless the publish in the catch
\* block throws (then no event is published and the publish error is the one
\* thrown), and the job is dead-lettered with the thrown error unless the
\* dead-letter push fails with the broker (then it is in no list).
C24_DuplicateCreateFailsEventIfPublished ==
  [][DuplicateCreateEnds =>
       /\ DuplicateCreateFails
       /\ \/ FailureEventAdded({"customer.creation.failed"})
          \/ events' = events /\ <<cur[1].ref, "PublishError">> \in threw'
       /\ \/ DeadLetterAdded
          \/ CustomerFailedList' = CustomerFailedList /\ cur[1].ref \in dlError']_vars

\* C24 witness: the duplicate was refused: one customer has the email, the
\* failure event names the duplicate and the job is in customer.jobs:failed
C24_Witness ==
  \E p \in threw :
    /\ p[2] = "Customer with this email already exists"
    /\ ProducerJob(p[1]).type = "CREATE_CUSTOMER"
    /\ Cardinality({c \in DOMAIN customerDocs :
                      /\ customerDocs[c].email = ProducerJob(p[1]).data.email
                      /\ customerDocs[c].created_by = ProducerJob(p[1]).data.userId}) = 1
    /\ \E i \in EventsOf(p[1], {"customer.creation.failed"}) : events[i].error = p[2]
    /\ \E i \in EntriesOf(CustomerFailedList, p[1]) : CustomerFailedList[i].error = p[2]

\* the invocations of the handler that one message caused
CallsOf(id) == SelectSeq(calls, LAMBDA c : c.id = id)

\* C25: a message that is not valid JSON is not dropped: the handler is
\* invoked exactly once for it, with the error payload that carries the raw
\* text
C25_InvalidMessageReachesHandler ==
  \A m \in delivered :
    m.kind = "raw" =>
      /\ Len(CallsOf(m.id)) = 1
      /\ CallsOf(m.id)[1].payload = "error"
      /\ CallsOf(m.id)[1].raw = m.id

C25_Witness ==
  \E m \in delivered, n \in delivered :
    /\ m.kind = "raw"
    /\ n.kind = "json"
    /\ n.id > m.id
    /\ Len(CallsOf(m.id)) = 1
    /\ Len(CallsOf(n.id)) >= 1

\* the ids of the messages the handler of ch was invoked with, in order
CallIds(ch) ==
  LET cs == SelectSeq(calls, LAMBDA c : c.channel = ch)
  IN [i \in 1..Len(cs) |-> cs[i].id]

\* C26: the handler of a channel is invoked once for each message published
\* on the channel, in the order of publication
C26_OneInvocationPerEvent ==
  \A ch \in Channels :
    /\ Len(CallIds(ch)) <= Len(published[ch])
    /\ CallIds(ch) = SubSeq(published[ch], 1, Len(CallIds(ch)))

\* C27: an exception that a handler throws is caught: it never leaves the
\* function that subscribe gave to the client
C27_HandlerErrorsContained == escaped = {}

\* C28: a handler invocation that had started when the shutdown signal
\* arrived has ended, by returning or by throwing, when the process exits
C28_InFlightHandlersFinish ==
  proc = "exited" => \A r \in sigRefs : r \in okRefs \/ \E p \in threw : p[1] = r

\* C29: no enqueued job is lost, also when a consumer dies inside a handler:
\* a job that was stored on the queue is still on it, is with a handler, was
\* handled to success, or is on the dead-letter list (a job whose dead-letter
\* push the broker refused is left aside)
C29_CrashLosesNoJob ==
  \A i \in 1..Len(enq) :
    \/ enq[i].ref \in Refs(lists[TestQueue])
    \/ \E l \in Loops : pc[l] = "handler" /\ cur[l].ref = enq[i].ref
    \/ enq[i].ref \in okRefs
    \/ enq[i].ref \in Refs(FailedList)
    \/ enq[i].ref \in dlError

\* the campaign is between two batches of its delivery, after the last one,
\* or completed
AfterBatchBookkeeping(c) ==
  \/ campaigns[c].status = "completed"
  \/ \E l \in Loops :
       /\ pc[l] = "handler"
       /\ lq[l] = CampaignQueue
       /\ cur[l].campaignId = c
       /\ h[l].batchIndex >= 1
       /\ h[l].at \in {"logs", "final"}

\* C30: whenever getCampaignById reads a campaign after the bookkeeping of a
\* batch or after completion, sent + failed + pending is the audience size
C30_StatsAddUpToAudience ==
  \A c \in CampaignIds :
    AfterBatchBookkeeping(c) =>
      DeliveryStats(c).sent + DeliveryStats(c).failed + DeliveryStats(c).pending
        = DeliveryStats(c).total

(***************************************************************************)
(* Batches after a failed batch (SpecDelivery).                            *)
(***************************************************************************)
\* a step in which the sendBulkEmails call of loop l's batch threw
BatchThrew(l) ==
  /\ pc[l] = "handler"
  /\ h[l].at = "send"
  /\ Len(forced') > Len(forced)

\* the delivery goes on with the next batch, or with the final update after
\* the last one
GoesOn(l) ==
  /\ h'[l].batchIndex = h[l].batchIndex + 1
  /\ h'[l].at = IF h[l].batchIndex + 1 < Len(Batches(l)) THEN "logs" ELSE "final"

LogsOfCampaign(c) == {i \in 1..Len(logs) : logs[i].campaign_id = c}

\* a campaign is stored as completed only after every batch had its logs
\* inserted and was sent or force-failed
CompletedAfterAllBatches ==
  \A c \in CampaignIds :
    (campaigns[c].status # "completed" /\ campaigns'[c].status = "completed") =>
      Cardinality(LogsOfCampaign(c)) = campaigns[c].audience_size

SentIds == {sendCalls[i].messageId : i \in 1..Len(sendCalls)}

\* sendEmail is called for a message whose log is stored and pending
LogBeforeSend ==
  Len(sendCalls') > Len(sendCalls) =>
    \E i \in 1..Len(logs) :
      /\ logs[i].message_id = sendCalls'[Len(sendCalls')].messageId
      /\ logs[i].status = "pending"

\* the logs of a batch are inserted after every message of the batches
\* before it was handed to the vendor
BatchesInTurn ==
  Len(logs') > Len(logs) =>
    \A i \in 1..Len(logs) : logs[i].message_id \in SentIds

\* a callback of the vendor finds the log of its message
ReceiptFindsLog ==
  receiptResponse'.n > receiptResponse.n =>
    /\ HasLog(logs, receiptResponse'.messageId)
    /\ receiptResponse'.code = 200

\* C32: the pending log of a recipient is stored before the vendor is asked
\* to send the recipient's message, the batches are handled one after
\* another, and no receipt of such a send is processed before its log exists
C32_LogStoredBeforeSend ==
  [][LogBeforeSend /\ BatchesInTurn /\ ReceiptFindsLog]_vars

\* C32 witness: the receipt of the last message of the second batch was
\* processed while the receipt of the first message of the first batch is
\* still on its way
C32_Witness ==
  /\ Len(logs) = 11
  /\ logs[11].status = "sent"
  /\ logs[1].status = "pending"
  /\ \E r \in receipts : r.messageId = 1

(***************************************************************************)
(* The entries of the dead-letter list (Spec).                             *)
(***************************************************************************)
\* a step in which loop l leaves its handler and the dead-letter list grows
DeadLetters(l) ==
  /\ pc[l] = "handler"
  /\ pc'[l] # "handler"
  /\ Len(FailedList') = Len(FailedList) + 1

\* C33: the entry that processQueue adds to `q:failed` keeps the id the job
\* had when it was dequeued and has status failed
C33_DeadLetterKeepsIdentity ==
  [][\A l \in Loops :
       DeadLetters(l) =>
         /\ FailedList'[1].ref = cur[l].ref
         /\ FailedList'[1].id = cur[l].id
         /\ FailedList'[1].status = "failed"]_vars

\* C34: every CommunicationLog has status pending, sent or failed, whatever
\* receipts are posted to the receipt endpoint
C34_LogStatusDomain ==
  \A i \in 1..Len(logs) : logs[i].status \in {"pending", "sent", "failed"}

(***************************************************************************)
(* Logs, receipts and statistics (SpecReceipts).                           *)
(***************************************************************************)
\* the messages whose log the batch catch of deliverCampaign marked failed
ForceFailedIds == UNION {forced[k].ids : k \in {j \in 1..Len(forced) : forced[j].updated}}

\* C35: a log that the delivery engine force-failed after a batch-level
\* exception keeps status failed, also when a callback scheduled before the
\* exception arrives afterwards
C35_ForceFailedStaysFailed ==
  \A i \in 1..Len(logs) :
    logs[i].message_id \in ForceFailedIds => logs[i].status = "failed"

\* the log of message m is stored and still pending
PendingLog(m) == \E i \in 1..Len(logs) : logs[i].message_id = m /\ logs[i].status = "pending"

\* C36: every CommunicationLog that the delivery engine created eventually
\* leaves status pending
C36_LogsLeavePending ==
  \A m \in 1..MaxReceiptAudience : PendingLog(m) ~> ~PendingLog(m)

\* the delivery of campaign c ended as completed with no batch-level
\* exception, and the callback of each of its messages was processed by the
\* receipt handler
AllReceiptsProcessed(c) ==
  /\ campaigns[c].status = "completed"
  /\ forced = <<>>
  /\ receipts = {}
  /\ \A i \in LogsOfCampaign(c) : mutations[i].receipt = 1

StoredByCreate == {w[1] : w \in {x \in custWrites : x[2] = "CREATE_CUSTOMER"}}

\* C39: a CREATE_CUSTOMER job is reported as failed, by a
\* customer.creation.failed event or by an entry in customer.jobs:failed,
\* only if it stored no customer
C39_FailedMeansNotStored ==
  \A r \in StoredByCreate :
    /\ EventsOf(r, {"customer.creation.failed"}) = {}
    /\ EntriesOf(CustomerFailedList, r) = {}

\* C38: at most one customer exists for a pair of email and creating user,
\* whatever the interleaving of the CREATE_CUSTOMER jobs of several loops
C38_OneCustomerPerPair ==
  \A c1, c2 \in CustomerIds :
    (/\ HasCustomer(customerDocs, c1)
     /\ HasCustomer(customerDocs, c2)
     /\ customerDocs[c1].email = customerDocs[c2].email
     /\ customerDocs[c1].created_by = customerDocs[c2].created_by) => c1 = c2

\* campaign c is stored and not in a terminal status
Unfinished(c) == Exists(campaigns, c) /\ campaigns[c].status \in {"pending", "processing"}

\* C40: every campaign that createCampaign stored eventually reaches
\* completed or failed
C40_CampaignsTerminate ==
  \A c \in CampaignIds : Unfinished(c) ~> ~Unfinished(c)

====
